---------------------------- MODULE Spec2Model ----------------------------
(*
  A model of the dashcam-sync appliance scripts:

    - mount_helper.select_files_to_copy   (the file selector)
    - uploader.upload_dir                 (the retrying uploader)
    - camera_service.main                 (the percentage based poll loop)
    - e2e_test_single_file.main           (the end to end script)
    - mount_helper.MountedDevice          (the scoped mount)
    - service.py                          (the asyncio, voltage based service
                                           and its low-battery watchdog task)

  Each part has its own specification over the same variables; the
  variables of the parts a specification does not run stay at their idle
  values.
*)
EXTENDS Integers, Sequences, FiniteSets, TLC

(***************************************************************************)
(* Bounds of the model.                                                    *)
(***************************************************************************)
\* largest file size (bytes) of a camera file
MaxSize == 2
\* largest modification time of a camera file
MaxTime == 2
\* largest max_files limit tried
MaxFilesLimit == 2
\* largest max_bytes limit tried
MaxBytesLimit == 3
\* largest retries value tried
MaxRetries == 3
\* largest initial_delay tried
MaxInitialDelay == 2
\* largest backoff_factor tried
MaxBackoff == 2

\* largest size (bytes) of the staging filesystem
MaxDiskTotal == 5
\* largest size (bytes) du reports for the camera contents
MaxCameraBytes == 2

\* poll.interval_seconds of the model's configuration
PollInterval == 2

\* relative paths given to the candidates, in walk order
FileNames == <<"a.mp4", "b.mp4", "c.mp4">>

VARIABLES
  \* ---- mount_helper.select_files_to_copy
  candidates,      \* the (rel, size, mtime) tuples gathered by the walk
  max_files,       \* [given |-> BOOLEAN, val |-> Nat]; given = FALSE is None
  max_bytes,       \* [given |-> BOOLEAN, val |-> Nat]; given = FALSE is None
  strategy,        \* "newest", "oldest", "largest" or anything else
  selected,        \* the list of relative paths returned
  selPc,           \* "call" | "done" | "idle"
  \* ---- uploader.upload_dir
  staging_isdir,   \* os.path.isdir(staging_dir)
  method,          \* upload_cfg.get('method', 'rsync')
  dest,            \* upload_cfg.get('dest_path') is truthy
  dry_run,         \* the dry_run parameter
  retries,         \* the retries parameter
  initial_delay,   \* the initial_delay parameter
  backoff_factor,  \* the backoff_factor parameter
  attempt,         \* the local attempt
  delay,           \* the local delay
  runs,            \* outcomes of the subprocess.run(final_cmd) calls made
  sleeps,          \* arguments of the time.sleep calls made
  upPc,            \* "idle" | "check" | "loop" | "done"
  upResult,        \* the value returned
  \* ---- camera_service.main, e2e_test_single_file.main, mount_helper main
  script,          \* which script runs: "service" | "e2e" | "mount_helper"
  args_dry_run,    \* --dry-run
  args_once,       \* --once
  disconnect_pct,  \* thresholds.disconnect_percent as main reads it
  shutdown_pct,    \* thresholds.shutdown_percent as main reads it
  STOP,            \* the global set by handle_sigterm
  pc,              \* position in the script
  trace,           \* commands and calls made in the current poll iteration
  slept,           \* main's local slept: seconds of the inter-poll sleep done
  pct,             \* main's local pct: the numeric battery_percent read (None: none)
  battery_info,    \* what the run of logged-battery-info.sh gave ("unset": not run)
  mounts,          \* mount points the camera device is mounted at (OS table)
  ctx,             \* the MountedDevice generator: "none" | "open" | "closed" | "failed"
  ctx_path,        \* MountedDevice's local mount_path
  unmountLog,      \* arguments of the unmount() calls made by this MountedDevice
  mount_path,      \* main's local mount_path ("" is None)
  mounted_via_context, \* main's local mounted_via_context
  staging,         \* entries of the staging directory
  ok,              \* main's local ok (result of upload_dir)
  raised,          \* an exception is propagating (e2e: through the finally)
  \* ---- service.py
  ac_power,        \* VIN >= VIN_THRESHOLD: the car supplies power
  port_power,      \* power of hub port CAMERA_PORT (uhubctl)
  usb_authorized,  \* content of SYS_PATH_ENABLE_USB (the data line)
  camera_connected, \* CAMERA_DEVICE_PATH exists
  camera_mounted,  \* the camera is mounted at CAMERA_MOUNT_POINT
  mainPc,          \* position of service_main
  copyPc,          \* position of the copy_files_to_staging task
  acPc,            \* position of the task_disconnect_camera_on_ac task
  file_list,       \* copy_files_to_staging: names not yet iterated
  filename,        \* copy_files_to_staging: the loop variable
  local_files,     \* the names in LOCAL_FILES_LIST
  local_dir,       \* the files in LOCAL_FILES_DIR
  space_stats,     \* copy_files_to_staging: the 'available' entry of df, in KiB
  transfer_file_size, \* copy_files_to_staging: os.path.getsize(src_path)
  port_cmd,        \* the last uhubctl action run on CAMERA_PORT ("none" at start)
  vbat,            \* VBAT of lifepo4wered-cli (mV)
  wdPc,            \* position of the task_disconnect_on_low_battery task
  wd_cmds,         \* the commands that task has run
  \* ---- device_detector.wait_for_block_device / wait_for_camera_device
  det_fn,          \* the function called: "block" | "camera" ("none": no call)
  selector,        \* the arguments given: "vidpid" | "hub" | "none"
  clock,           \* time.time(), in ticks
  block_present,   \* the USB device is in sysfs and has a block device in /dev
  byid_present,    \* /dev/disk/by-id has a usb-/NOVATEKN/vt-DSC entry that exists
  wb_start,        \* wait_for_block_device: start
  wb_timeout,      \* wait_for_block_device: timeout
  wb_poll_interval, \* wait_for_block_device: poll_interval
  wbPc,            \* wait_for_block_device: position
  wbResult,        \* wait_for_block_device: the value returned
  wb_polls,        \* lookups made by the current wait_for_block_device call
  wc_start,        \* wait_for_camera_device: start
  wc_timeout,      \* wait_for_camera_device: timeout
  wc_poll_interval, \* wait_for_camera_device: poll_interval
  wcPc,            \* wait_for_camera_device: position
  wcResult,        \* wait_for_camera_device: the value returned
  wc_polls,        \* rounds of wait_for_camera_device's loop started
  \* ---- service.py: ensure_wifi
  wifiPc,          \* position of the ensure_wifi task
  nm_state,        \* NetworkManager: STATE of each localonlywifi profile
  interfaces,      \* ensure_wifi: the dict get_wifi_interface_info returned
  todo,            \* ensure_wifi: the interfaces the for loop has yet to visit
  wifi_port_power, \* power of hub port USB_WIFI_PORT
  ups,             \* the `nmcli connection up` commands run, with their results
  \* ---- service.py: read_stats_map / get_battery_stats
  tool_code,       \* exit status of `lifepo4wered-cli get` (127: not found)
  tool_out,        \* the lines it wrote to stdout
  statPc,          \* "idle" | "read" | "stats" | "done" | "raised"
  stats_map,       \* get_battery_stats: stats_map
  result,          \* get_battery_stats: the dict returned
  \* ---- mount_helper.copy_to_staging called by itself
  files_list,      \* the files_list parameter: None or a list of relative paths
  tree,            \* the files under mount_path
  cpPc             \* "idle" | "call" | "returned" | "raised"

selVars == <<candidates, max_files, max_bytes, strategy, selected, selPc>>
upVars == <<staging_isdir, method, dest, dry_run, retries, initial_delay,
            backoff_factor, attempt, delay, runs, sleeps, upPc, upResult>>
cfgVars == <<script, args_dry_run, args_once, disconnect_pct, shutdown_pct>>
mountVars == <<mounts, ctx, ctx_path, unmountLog>>
flowVars == <<mount_path, mounted_via_context, staging, ok, raised>>
camVars == <<cfgVars, STOP, pc, trace, pct, battery_info, slept, mountVars,
            flowVars>>
svcVars == <<ac_power, port_power, usb_authorized, camera_connected,
             camera_mounted, mainPc, copyPc, acPc, file_list, filename,
             local_files, local_dir, space_stats, transfer_file_size,
             port_cmd, vbat, wdPc, wd_cmds>>
wbVars == <<wb_start, wb_timeout, wb_poll_interval, wbPc, wbResult, wb_polls>>
wcVars == <<wc_start, wc_timeout, wc_poll_interval, wcPc, wcResult, wc_polls>>
detVars == <<det_fn, selector, clock, block_present, byid_present, wbVars,
             wcVars>>
wifiVars == <<wifiPc, nm_state, interfaces, todo, wifi_port_power, ups>>
statVars == <<tool_code, tool_out, statPc, stats_map, result>>
\* the functions and tasks checked by themselves
cpVars == <<files_list, tree, cpPc>>
libVars == <<detVars, wifiVars, statVars, cpVars>>
\* what the device detector, the Wi-Fi supervisor and the power reader leave
\* alone
detOthers == <<selVars, upVars, camVars, svcVars, wifiVars, statVars, cpVars>>
wifiOthers == <<selVars, upVars, camVars, svcVars, detVars, statVars, cpVars>>
statOthers == <<selVars, upVars, camVars, svcVars, detVars, wifiVars, cpVars>>
vars == <<selVars, upVars, camVars, svcVars, libVars>>
\* what the selector, and the uploader, leave alone
selOthers == <<upVars, camVars, svcVars, libVars>>
upOthers == <<selVars, camVars, svcVars, libVars>>
\* the selector's variables but main's local selected
selConfig == <<candidates, max_files, max_bytes, strategy, selPc>>

(***************************************************************************)
(* mount_helper.select_files_to_copy                                       *)
(***************************************************************************)
None == [given |-> FALSE, val |-> 0]
Some(n) == [given |-> TRUE, val |-> n]

Strategies == {"newest", "oldest", "largest", "random"}

\* x sorts strictly before e under the strategy key
KeyBeforeAscendingSize(x, e, strat) ==
  CASE strat = "oldest" -> x.mtime < e.mtime
    [] strat = "largest" -> x.size < e.size
    [] OTHER -> x.mtime > e.mtime

KeyBefore(x, e, strat) ==
  CASE strat = "oldest" -> x.mtime < e.mtime
    [] strat = "largest" -> x.size > e.size
    [] OTHER -> x.mtime > e.mtime

\* list.sort is stable: x goes after every element it does not sort before
RECURSIVE InsertSorted(_, _, _)
InsertSorted(s, x, strat) ==
  IF s = <<>> THEN <<x>>
  ELSE IF KeyBefore(x, Head(s), strat) THEN <<x>> \o s
  ELSE <<Head(s)>> \o InsertSorted(Tail(s), x, strat)

RECURSIVE SortCandidates(_, _)
SortCandidates(s, strat) ==
  IF s = <<>> THEN <<>>
  ELSE InsertSorted(SortCandidates(SubSeq(s, 1, Len(s) - 1), strat),
                    s[Len(s)], strat)

\* the loop over the sorted candidates
RECURSIVE GreedySelectOffByOne(_, _, _, _, _)
GreedySelectOffByOne(cands, sel, total_bytes, mf, mb) ==
  IF cands = <<>> THEN sel
  ELSE IF mf.given /\ Len(sel) > mf.val THEN sel
  ELSE IF mb.given /\ (total_bytes + Head(cands).size) > mb.val
       THEN GreedySelectOffByOne(Tail(cands), sel, total_bytes, mf, mb)
  ELSE GreedySelectOffByOne(Tail(cands), Append(sel, Head(cands).rel),
                            total_bytes + Head(cands).size, mf, mb)

RECURSIVE GreedySelectAbortOnBytes(_, _, _, _, _)
GreedySelectAbortOnBytes(cands, sel, total_bytes, mf, mb) ==
  IF cands = <<>> THEN sel
  ELSE IF mf.given /\ Len(sel) >= mf.val THEN sel
  ELSE IF mb.given /\ (total_bytes + Head(cands).size) > mb.val THEN sel
  ELSE GreedySelectAbortOnBytes(Tail(cands), Append(sel, Head(cands).rel),
                                total_bytes + Head(cands).size, mf, mb)

RECURSIVE GreedySelectNoneIsZero(_, _, _, _, _)
GreedySelectNoneIsZero(cands, sel, total_bytes, mf, mb) ==
  IF cands = <<>> THEN sel
  ELSE IF ~mf.given \/ Len(sel) >= mf.val THEN sel
  ELSE IF mb.given /\ (total_bytes + Head(cands).size) > mb.val
       THEN GreedySelectNoneIsZero(Tail(cands), sel, total_bytes, mf, mb)
  ELSE GreedySelectNoneIsZero(Tail(cands), Append(sel, Head(cands).rel),
                              total_bytes + Head(cands).size, mf, mb)

RECURSIVE GreedySelect(_, _, _, _, _)
GreedySelect(cands, sel, total_bytes, mf, mb) ==
  IF cands = <<>> THEN sel
  ELSE IF mf.given /\ Len(sel) >= mf.val THEN sel
  ELSE IF mb.given /\ (total_bytes + Head(cands).size) > mb.val
       THEN GreedySelect(Tail(cands), sel, total_bytes, mf, mb)
  ELSE GreedySelect(Tail(cands), Append(sel, Head(cands).rel),
                    total_bytes + Head(cands).size, mf, mb)

select_files_to_copy(cands, mf, mb, strat) ==
  IF cands = <<>> THEN <<>>
  ELSE GreedySelect(SortCandidates(cands, strat), <<>>, 0, mf, mb)

\* what os.stat gave for each file of the walk
StatValues == [size : 0 .. MaxSize, mtime : 1 .. MaxTime]

CandidateLists ==
  UNION { { [i \in 1 .. n |-> [rel |-> FileNames[i], size |-> st[i].size,
                                mtime |-> st[i].mtime]] :
              st \in [1 .. n -> StatValues] } : n \in 0 .. Len(FileNames) }

FilesLimits == {None} \cup {Some(n) : n \in 0 .. MaxFilesLimit}
BytesLimits == {None} \cup {Some(n) : n \in 0 .. MaxBytesLimit}

SelIdle ==
  /\ candidates = <<>>
  /\ max_files = None
  /\ max_bytes = None
  /\ strategy = "newest"
  /\ selected = <<>>
  /\ selPc = "idle"

UpIdle ==
  /\ staging_isdir = TRUE
  /\ method = "rsync"
  /\ dest = TRUE
  /\ dry_run = FALSE
  /\ retries = 0
  /\ initial_delay = 1
  /\ backoff_factor = 1
  /\ attempt = 0
  /\ delay = 0
  /\ runs = <<>>
  /\ sleeps = <<>>
  /\ upPc = "idle"
  /\ upResult = FALSE

CamIdle ==
  /\ script = "none"
  /\ args_dry_run = FALSE
  /\ args_once = FALSE
  /\ disconnect_pct = 50
  /\ shutdown_pct = 25
  /\ STOP = FALSE
  /\ pc = "idle"
  /\ trace = <<>>
  /\ pct = None
  /\ battery_info = "unset"
  /\ slept = 0
  /\ mounts = {}
  /\ ctx = "none"
  /\ ctx_path = ""
  /\ unmountLog = <<>>
  /\ mount_path = ""
  /\ mounted_via_context = FALSE
  /\ staging = {}
  /\ ok = FALSE
  /\ raised = FALSE

\* VBAT_BOOT of lifepo4wered-cli (mV)
VbatBoot == 3150
\* VBAT readings (mV)
VbatValues == {3000, 3150, 3151, 3600}

SvcIdle ==
  /\ ac_power = FALSE
  /\ port_power = FALSE
  /\ usb_authorized = FALSE
  /\ camera_connected = FALSE
  /\ camera_mounted = FALSE
  /\ mainPc = "idle"
  /\ copyPc = "idle"
  /\ acPc = "idle"
  /\ file_list = {}
  /\ filename = ""
  /\ local_files = {}
  /\ local_dir = {}
  /\ space_stats = None
  /\ transfer_file_size = 0
  /\ port_cmd = "none"
  /\ vbat = VbatBoot
  /\ wdPc = "idle"
  /\ wd_cmds = <<>>

DetIdle ==
  /\ det_fn = "none"
  /\ selector = "none"
  /\ clock = 0
  /\ block_present = FALSE
  /\ byid_present = FALSE
  /\ wb_start = 0
  /\ wb_timeout = 0
  /\ wb_poll_interval = 0
  /\ wbPc = "idle"
  /\ wbResult = "None"
  /\ wb_polls = 0
  /\ wc_start = 0
  /\ wc_timeout = 0
  /\ wc_poll_interval = 0
  /\ wcPc = "idle"
  /\ wcResult = "None"
  /\ wc_polls = 0

\* the connection profiles whose name holds 'localonlywifi', by DEVICE, in
\* the order nmcli lists them
Profiles == <<"wlan0", "wlan1">>
\* STATE of a profile
ProfileStates == {"activated", "inactive"}

WifiIdle ==
  /\ wifiPc = "idle"
  /\ nm_state = [i \in 1 .. Len(Profiles) |-> "activated"]
  /\ interfaces = <<>>
  /\ todo = <<>>
  /\ wifi_port_power = TRUE
  /\ ups = <<>>

\* the keys of `lifepo4wered-cli get` that get_battery_stats reads
StatKeys == {"VIN", "VIN_THRESHOLD", "VBAT"}
\* a value: a number (mV), text that is not a number, or no value (a key
\* that is not in the map)
Num(n) == [kind |-> "num", n |-> n]
Text == [kind |-> "text", n |-> 0]
Absent == [kind |-> "absent", n |-> 0]
NoStats == [k \in StatKeys |-> Absent]
NoResult == [ac_power |-> FALSE, battery_voltage |-> 0]

StatIdle ==
  /\ tool_code = 0
  /\ tool_out = <<>>
  /\ statPc = "idle"
  /\ stats_map = NoStats
  /\ result = NoResult

\* files_list = None
NoList == [given |-> FALSE, val |-> <<>>]

CpIdle ==
  /\ files_list = NoList
  /\ tree = {}
  /\ cpPc = "idle"

LibIdle == DetIdle /\ WifiIdle /\ StatIdle /\ CpIdle

SelInit ==
  /\ candidates \in CandidateLists
  /\ max_files \in FilesLimits
  /\ max_bytes \in BytesLimits
  /\ strategy \in Strategies
  /\ selected = <<>>
  /\ selPc = "call"
  /\ UpIdle
  /\ CamIdle
  /\ SvcIdle
  /\ LibIdle

SelectFiles ==
  /\ selPc = "call"
  /\ selected' = select_files_to_copy(candidates, max_files, max_bytes, strategy)
  /\ selPc' = "done"
  /\ UNCHANGED <<candidates, max_files, max_bytes, strategy>>
  /\ UNCHANGED selOthers

SelNext == SelectFiles

SpecSel == SelInit /\ [][SelNext]_vars

\* ---- the walk of select_files_to_copy over its subdirs argument
\* longest subdirs argument tried
MaxSubdirs == 2

\* the files of the mounted camera: the directory each is in and its path
\* relative to the mount, as os.path.relpath gives it
CameraTree ==
  <<[dir |-> "Normal", rel |-> "Normal/b.mp4"],
    [dir |-> "Normal/Front", rel |-> "Normal/Front/c.mp4"]>>

\* the directories os.walk(base) visits for each subdir; "DCIM" does not
\* exist on the mount
WalkedDirs(sd) ==
  CASE sd = "." -> {".", "Normal", "Normal/Front"}
    [] sd = "Normal" -> {"Normal", "Normal/Front"}
    [] sd = "Normal/Front" -> {"Normal/Front"}
    [] OTHER -> {}

SubdirNames == {".", "Normal", "Normal/Front", "DCIM"}
SubdirArgs == UNION {[1 .. n -> SubdirNames] : n \in 1 .. MaxSubdirs}

\* lines 113-123: the candidates one subdir adds
RECURSIVE WalkSubdir(_, _, _)
WalkSubdir(entries, sd, st) ==
  IF entries = <<>> THEN <<>>
  ELSE (IF Head(entries).dir \in WalkedDirs(sd)
          THEN <<[rel |-> Head(entries).rel, size |-> st[Head(entries).rel].size,
                  mtime |-> st[Head(entries).rel].mtime]>>
          ELSE <<>>)
       \o WalkSubdir(Tail(entries), sd, st)

\* lines 108-123: for sd in subdirs
RECURSIVE WalkSubdirs(_, _)
WalkSubdirs(subdirs, st) ==
  IF subdirs = <<>> THEN <<>>
  ELSE WalkSubdir(CameraTree, Head(subdirs), st) \o WalkSubdirs(Tail(subdirs), st)

WalkInit ==
  /\ \E subdirs \in SubdirArgs,
        st \in [{CameraTree[i].rel : i \in 1 .. Len(CameraTree)} -> StatValues] :
       candidates = WalkSubdirs(subdirs, st)
  /\ max_files \in FilesLimits
  /\ max_bytes \in BytesLimits
  /\ strategy \in Strategies
  /\ selected = <<>>
  /\ selPc = "call"
  /\ UpIdle
  /\ CamIdle
  /\ SvcIdle
  /\ LibIdle

SpecWalk == WalkInit /\ [][SelNext]_vars

(***************************************************************************)
(* uploader.upload_dir                                                     *)
(***************************************************************************)
Methods == {"rsync", "scp"}
\* what subprocess.run(final_cmd, check=True) can do: return (exit 0), raise
\* CalledProcessError (non-zero exit), raise anything else (no such file...)
RunOutcomes == {"ok", "nonzero", "error"}
\* retries is an int: -1 stands for the negative values
RetriesValues == {n - 1 : n \in 0 .. MaxRetries + 1}

\* the checks before the command is built
ValidateUploadNoDest(isdir, m, d) == isdir /\ m = "rsync"
ValidateUpload(isdir, m, d) == isdir /\ m = "rsync" /\ d

\* "if attempt > retries" in the CalledProcessError handler
ExceededRetriesOffByOne(a, r) == a >= r
ExceededRetries(a, r) == a > r

UpReturn(v) ==
  /\ upResult' = v
  /\ upPc' = "done"

\* lines 58-88: validation, command construction, attempt = 0, delay
UpStart ==
  /\ upPc = "check"
  /\ IF ValidateUpload(staging_isdir, method, dest)
     THEN /\ attempt' = 0
          /\ delay' = initial_delay
          /\ upPc' = "loop"
          /\ UNCHANGED upResult
     ELSE /\ UpReturn(FALSE)
          /\ UNCHANGED <<attempt, delay>>
  /\ UNCHANGED <<staging_isdir, method, dest, dry_run, retries, initial_delay,
                 backoff_factor, runs, sleeps>>
  /\ UNCHANGED upOthers

\* lines 89-110: one test of the while condition and one pass of its body
UpLoopBody(dry) ==
  /\ upPc = "loop"
  /\ IF ~(attempt <= retries)
     THEN /\ UpReturn(FALSE)
          /\ UNCHANGED <<attempt, delay, runs, sleeps>>
     ELSE /\ attempt' = attempt + 1
          /\ IF dry
             THEN /\ UpReturn(TRUE)
                  /\ UNCHANGED <<delay, runs, sleeps>>
             ELSE \E o \in RunOutcomes :
                    /\ runs' = Append(runs, o)
                    /\ CASE o = "ok" ->
                              /\ UpReturn(TRUE)
                              /\ UNCHANGED <<delay, sleeps>>
                         [] o = "error" ->
                              /\ UpReturn(FALSE)
                              /\ UNCHANGED <<delay, sleeps>>
                         [] OTHER ->
                              IF ExceededRetries(attempt', retries)
                              THEN /\ UpReturn(FALSE)
                                   /\ UNCHANGED <<delay, sleeps>>
                              ELSE /\ sleeps' = Append(sleeps, delay)
                                   /\ delay' = delay * backoff_factor
                                   /\ UNCHANGED <<upPc, upResult>>
  /\ UNCHANGED <<staging_isdir, method, dest, dry_run, retries, initial_delay,
                 backoff_factor>>
  /\ UNCHANGED upOthers

UpLoopStepIgnoringDryRun == UpLoopBody(FALSE)
UpLoopStep == UpLoopBody(dry_run)

UpInit ==
  /\ staging_isdir \in BOOLEAN
  /\ method \in Methods
  /\ dest \in BOOLEAN
  /\ dry_run \in BOOLEAN
  /\ retries \in RetriesValues
  /\ initial_delay \in 1 .. MaxInitialDelay
  /\ backoff_factor \in 1 .. MaxBackoff
  /\ attempt = 0
  /\ delay = 0
  /\ runs = <<>>
  /\ sleeps = <<>>
  /\ upPc = "check"
  /\ upResult = FALSE
  /\ SelIdle
  /\ CamIdle
  /\ SvcIdle
  /\ LibIdle

UpNext ==
  \/ UpStart
  \/ UpLoopStep

SpecUp == UpInit /\ [][UpNext]_vars

(***************************************************************************)
(* mount_helper: mount_block_device, unmount, MountedDevice, copy_to_staging*)
(***************************************************************************)
\* mount points: the one mount_block_device makes (mount_base/name) and one
\* made by an automounter
MountPoints == {"own", "existing"}

\* mount_block_device(device, ...) returning p ("" when it raises):
\*   "missing"  the device path does not exist: FileNotFoundError
\*   "mounted"  the mount command succeeded
\*   "reused"   the mount command failed and findmnt names a target
\*   "failed"   the mount command failed and findmnt names none
MountOutcomes == {"missing", "mounted", "reused", "failed"}

mount_block_device(o, p) ==
  CASE o = "mounted" -> p = "own" /\ mounts' = mounts \cup {"own"}
    [] o = "reused" -> p \in mounts /\ mounts' = mounts
    [] OTHER -> p = "" /\ mounts' = mounts

\* MountedDevice.__enter__: the generator runs to its yield, or raises
CtxEnter(o, p) ==
  /\ mount_block_device(o, p)
  /\ ctx' = IF p = "" THEN "failed" ELSE "open"
  /\ ctx_path' = p
  /\ unmountLog' = <<>>

\* unmount(path): umount runs only on a mount point; u is how umount ends
UmountResults == {"ok", "busy"}
unmount(path, u) ==
  mounts' = IF path \in mounts /\ u = "ok" THEN mounts \ {path} ELSE mounts

\* MountedDevice.__exit__(None, None, None), or the with statement's exit:
\* the generator resumes after its yield and runs its finally; a generator
\* that has already finished does nothing
CtxExitUnguarded(u) ==
  IF ctx \in {"open", "closed"}
  THEN /\ unmountLog' = Append(unmountLog, ctx_path)
       /\ unmount(ctx_path, u)
       /\ ctx' = "closed"
       /\ UNCHANGED ctx_path
  ELSE UNCHANGED mountVars

CtxExit(u) ==
  IF ctx = "open"
  THEN /\ unmountLog' = Append(unmountLog, ctx_path)
       /\ unmount(ctx_path, u)
       /\ ctx' = "closed"
       /\ UNCHANGED ctx_path
  ELSE UNCHANGED mountVars

\* the trace entry of an exit that unmounts
ExitEvents == IF ctx = "open" THEN <<"unmount">> ELSE <<>>

\* copy_to_staging: "ok", or "raise" (the copy command exits non-zero) with
\* part of the files written
CopyOutcomes == {"ok", "raise"}
copy_to_staging(files, o, part) ==
  /\ part \subseteq files
  /\ o = "ok" => part = files
  /\ staging' = staging \cup part

Range(s) == {s[i] : i \in DOMAIN s}

\* the camera contents the scripts meet: lists of files of one age
CameraContents ==
  {c \in CandidateLists : \A i \in DOMAIN c : c[i].mtime = 1 /\ c[i].size >= 1}

\* an automounter mounts the device while a script is about to look or mount
Automount ==
  /\ pc \in {"findmnt", "mount", "e_findmnt", "e_mount", "mh_enter"}
  /\ "existing" \notin mounts
  /\ mounts' = mounts \cup {"existing"}
  /\ UNCHANGED <<ctx, ctx_path, unmountLog>>
  /\ UNCHANGED <<cfgVars, svcVars, libVars, battery_info, slept, pct, STOP, pc, trace, flowVars, selVars, upVars>>

(***************************************************************************)
(* camera_service.main                                                     *)
(***************************************************************************)
ShutdownPercent == 25
DisconnectPercent == 50
DefaultInitialDelay == 2
DefaultBackoff == 2
BatteryPercents == {24, 25, 26, 49, 50}

\* the thresholds section of a configuration file: each key is optional
ThresholdValues == {ShutdownPercent, DisconnectPercent}
ThresholdConfigs ==
  [disconnect_percent : {None} \cup {Some(v) : v \in ThresholdValues},
   shutdown_percent : {None} \cup {Some(v) : v \in ThresholdValues}]

\* dict.get(key, default)
CfgGet(entry, default) == IF entry.given THEN entry.val ELSE default

\* maybe_run(cmd, dry_run): nothing runs in dry-run; otherwise subprocess.call
\* returns an exit status, or raises when the command cannot be started
MaybeRunResults(dry) == IF dry THEN {"ok"} ELSE {"ok", "fail", "raise"}
RanIgnoringDryRun(cmd, dry) == <<cmd>>
Ran(cmd, dry) == IF dry THEN <<>> ELSE <<cmd>>

Goto(next, events) ==
  /\ pc' = next
  /\ trace' = trace \o events

\* line 131: while not STOP
\* (the locals of the iteration before are dead here: they are written
\* again before they are read, and start the iteration at their first values)
CamLoopTest ==
  /\ script = "service"
  /\ pc = "loop"
  /\ pc' = IF STOP THEN "exit" ELSE "battery"
  /\ trace' = <<>>
  /\ pct' = None
  /\ battery_info' = "unset"
  /\ ctx' = "none"
  /\ ctx_path' = ""
  /\ unmountLog' = <<>>
  /\ mount_path' = ""
  /\ mounted_via_context' = FALSE
  /\ ok' = FALSE
  /\ selected' = <<>>
  /\ UNCHANGED <<cfgVars, svcVars, libVars, slept, STOP, mounts, staging, raised, selConfig, upVars>>

\* what running logged-battery-info.sh can give: the script is missing, it
\* cannot be executed, it exits non-zero, its output is not JSON, or its
\* output is JSON: null, a value that is not an object, an object without a
\* numeric battery_percent, an object with one
BatteryOutputs ==
  {"missing", "not_executable", "nonzero", "not_json", "null", "not_object",
   "no_percent", "percent"}

\* lines 71-84: get_battery_info: three exceptions are caught and give None
get_battery_info_catching_nothing(o) ==
  CASE o \in {"missing", "not_executable", "nonzero", "not_json"} -> "raise"
    [] o = "null" -> "None"
    [] OTHER -> "data"

get_battery_info(o) ==
  CASE o \in {"missing", "nonzero", "not_json"} -> "None"
    [] o = "not_executable" -> "raise"
    [] o = "null" -> "None"
    [] OTHER -> "data"

\* lines 133-139: no battery info, or no numeric battery_percent; an
\* exception of get_battery_info, or of info.get on a value that is not an
\* object, leaves main
CamBatteryUnavailable ==
  /\ pc = "battery"
  /\ pct' = None
  /\ \E o \in BatteryOutputs \ {"percent"} :
       /\ battery_info' = o
       /\ Goto(IF get_battery_info(o) = "raise" THEN "crashed"
               ELSE IF get_battery_info(o) = "data" /\ o = "not_object"
                    THEN "crashed"
                    ELSE "once",
               <<>>)
  /\ UNCHANGED <<cfgVars, svcVars, libVars, slept, STOP, mountVars, flowVars, selVars, upVars>>

\* lines 140-147: below the shutdown threshold
CamShutdown ==
  /\ pc = "battery"
  /\ \E p \in BatteryPercents, r \in MaybeRunResults(args_dry_run) :
       /\ p < shutdown_pct
       /\ pct' = Some(p)
       /\ battery_info' = "percent"
       /\ Goto(IF r = "raise" THEN "crashed" ELSE "exit",
               Ran("shutdown", args_dry_run))
  /\ UNCHANGED <<cfgVars, svcVars, libVars, slept, STOP, mountVars, flowVars, selVars, upVars>>

\* lines 148-150: below the disconnect threshold
CamDisconnect ==
  /\ pc = "battery"
  /\ \E p \in BatteryPercents, r \in MaybeRunResults(args_dry_run) :
       /\ ~(p < shutdown_pct)
       /\ p < disconnect_pct
       /\ pct' = Some(p)
       /\ battery_info' = "percent"
       /\ Goto(IF r = "raise" THEN "crashed" ELSE "once",
               Ran("stop_all", args_dry_run))
  /\ UNCHANGED <<cfgVars, svcVars, libVars, slept, STOP, mountVars, flowVars, selVars, upVars>>

\* lines 153-155, 311-313: the host is not reachable
CamHostUnreachable ==
  /\ pc = "battery"
  /\ \E p \in BatteryPercents, r \in MaybeRunResults(args_dry_run) :
       /\ ~(p < shutdown_pct)
       /\ ~(p < disconnect_pct)
       /\ pct' = Some(p)
       /\ battery_info' = "percent"
       /\ Goto(IF r = "raise" THEN "crashed" ELSE "once",
               Ran("start_rec", args_dry_run))
  /\ UNCHANGED <<cfgVars, svcVars, libVars, slept, STOP, mountVars, flowVars, selVars, upVars>>

\* lines 153-158: the host is reachable: enable data
CamStartData ==
  /\ pc = "battery"
  /\ \E p \in BatteryPercents, r \in MaybeRunResults(args_dry_run) :
       /\ ~(p < shutdown_pct)
       /\ ~(p < disconnect_pct)
       /\ pct' = Some(p)
       /\ battery_info' = "percent"
       /\ Goto(IF r = "raise" THEN "crashed" ELSE "import",
               Ran("start_data", args_dry_run))
  /\ UNCHANGED <<cfgVars, svcVars, libVars, slept, STOP, mountVars, flowVars, selVars, upVars>>

\* lines 161-168: the helper modules; a failed import runs stop_all and
\* continues the while loop
CamImport ==
  /\ pc = "import"
  /\ \E imported \in BOOLEAN, r \in MaybeRunResults(args_dry_run) :
       IF imported
       THEN Goto("detect", <<>>)
       ELSE Goto(IF r = "raise" THEN "crashed" ELSE "loop",
                 Ran("stop_all", args_dry_run))
  /\ UNCHANGED <<cfgVars, svcVars, libVars, battery_info, slept, pct, STOP, mountVars, flowVars, selVars, upVars>>

\* lines 171-184: wait for the device; none (always in dry-run) runs stop_all
\* and continues the while loop; otherwise mkdir -p staging, and the live
\* flow starts with mount_path = None, mounted_via_context = False
CamDetect ==
  /\ pc = "detect"
  /\ \E dev \in (IF args_dry_run THEN {FALSE} ELSE BOOLEAN),
        r \in MaybeRunResults(args_dry_run) :
       IF ~dev
       THEN /\ Goto(IF r = "raise" THEN "crashed" ELSE "loop",
                    Ran("stop_all", args_dry_run))
            /\ UNCHANGED <<mount_path, mounted_via_context>>
       ELSE /\ Goto(IF r = "raise" THEN "crashed" ELSE "findmnt", <<"mkdir">>)
            /\ mount_path' = IF r = "raise" THEN mount_path ELSE ""
            /\ mounted_via_context' =
                 IF r = "raise" THEN mounted_via_context ELSE FALSE
  /\ UNCHANGED <<cfgVars, svcVars, libVars, battery_info, slept, pct, STOP, mountVars, staging, ok, raised, selVars, upVars>>

\* lines 196-204: findmnt on the device: an existing target is used as it
\* is; CalledProcessError leaves None; anything else goes to the outer except
CamFindmnt ==
  /\ pc = "findmnt"
  /\ \E r \in {"ran", "raise"} :
       IF r = "raise"
       THEN Goto("finally", <<>>) /\ UNCHANGED mount_path
       ELSE IF mounts # {}
       THEN \E m \in mounts : Goto("measure", <<"mount">>) /\ mount_path' = m
       ELSE Goto("mount", <<>>) /\ UNCHANGED mount_path
  /\ UNCHANGED <<cfgVars, svcVars, libVars, battery_info, slept, pct, STOP, mountVars, mounted_via_context, staging, ok,
                 raised, selVars, upVars>>

\* lines 206-212: our own mount through MountedDevice.__enter__
CamMount ==
  /\ pc = "mount"
  /\ \E o \in MountOutcomes, p \in MountPoints \cup {""} :
       /\ CtxEnter(o, p)
       /\ IF p = ""
          THEN Goto("finally", <<>>) /\ UNCHANGED <<mount_path, mounted_via_context>>
          ELSE /\ Goto("measure", <<"mount">>)
               /\ mount_path' = p
               /\ mounted_via_context' = TRUE
  /\ UNCHANGED <<cfgVars, svcVars, libVars, battery_info, slept, pct, STOP, staging, ok, raised, selVars, upVars>>

\* line 230: max_allowed = int(total * 0.9)
max_allowed(total) == (total * 9) \div 10

\* lines 217-240: du, makedirs, disk_usage and the 90% rule
\*   "raise"       makedirs or disk_usage raised (outer except)
\*   "unknown"     du failed: size_bytes is None
\*   "over"        projected_used > max_allowed
\*   "fits"        the copy goes on
MeasureOutcomes == {"raise", "unknown", "over", "fits"}
\* what du and disk_usage gave: size_bytes (None when du failed), total, used
Measurements ==
  {m \in [size_bytes : {None} \cup {Some(n) : n \in 0 .. MaxCameraBytes},
          total : 0 .. MaxDiskTotal, used : 0 .. MaxDiskTotal,
          raises : BOOLEAN] : m.used <= m.total}
Measure(m) ==
  IF m.raises THEN "raise"
  ELSE IF ~m.size_bytes.given THEN "unknown"
  ELSE IF m.used + m.size_bytes.val > max_allowed(m.total) THEN "over"
  ELSE "fits"

CamMeasure ==
  /\ pc = "measure"
  /\ \E m \in Measurements :
       CASE Measure(m) = "fits" -> Goto("select", <<>>)
         [] Measure(m) = "over" -> Goto("finally", <<"skip_space">>)
         [] Measure(m) = "unknown" -> Goto("finally", <<"skip_size">>)
         [] OTHER -> Goto("finally", <<>>)
  /\ UNCHANGED <<cfgVars, svcVars, libVars, battery_info, slept, pct, STOP, mountVars, flowVars, selVars, upVars>>

\* lines 241-262: select the files; an exception gives selected = []
CamSelect ==
  /\ pc = "select"
  /\ \E c \in CameraContents, r \in {"ok", "raise"} :
       /\ selected' = IF r = "raise" THEN <<>>
                      ELSE select_files_to_copy(c, max_files, max_bytes, strategy)
       /\ Goto(IF selected' = <<>> THEN "finally" ELSE "copy",
               IF r = "raise" THEN <<"select", "select_raised">> ELSE <<"select">>)
  /\ UNCHANGED <<cfgVars, svcVars, libVars, battery_info, slept, pct, STOP, mountVars, flowVars, selConfig, upVars>>

\* lines 264-267: copy the selection to staging
CamCopy ==
  /\ pc = "copy"
  /\ \E o \in CopyOutcomes, part \in SUBSET Range(selected) :
       /\ copy_to_staging(Range(selected), o, part)
       /\ Goto("finally", IF o = "raise" THEN <<"copy", "copy_raised">> ELSE <<"copy">>)
  /\ UNCHANGED <<cfgVars, svcVars, libVars, battery_info, slept, pct, STOP, mountVars, mount_path, mounted_via_context, ok,
                 raised, selVars, upVars>>

\* lines 270-276: leave the context if we entered it
CamFinallySkipsExit ==
  /\ pc = "finally"
  /\ Goto("stop_all", <<>>)
  /\ UNCHANGED <<cfgVars, svcVars, libVars, battery_info, slept, pct, STOP, mountVars, flowVars, selVars, upVars>>

CamFinally ==
  /\ pc = "finally"
  /\ IF mounted_via_context
     THEN \E u \in UmountResults : CtxExit(u) /\ Goto("stop_all", ExitEvents)
     ELSE Goto("stop_all", <<>>) /\ UNCHANGED mountVars
  /\ UNCHANGED <<cfgVars, svcVars, libVars, battery_info, slept, pct, STOP, flowVars, selVars, upVars>>

\* lines 279-293: stop_all (not a dry run here), then wait for the device to
\* go away
CamStopAll ==
  /\ pc = "stop_all"
  /\ \E r \in MaybeRunResults(FALSE) :
       Goto(IF r = "raise" THEN "crashed" ELSE "upload", <<"stop_all">>)
  /\ UNCHANGED <<cfgVars, svcVars, libVars, battery_info, slept, pct, STOP, mountVars, flowVars, selVars, upVars>>

\* the call upload_dir(staging, cfg['upload'], dry_run=False, retries=...)
CallUpload(isdir) ==
  /\ staging_isdir' = isdir
  /\ dry_run' = FALSE
  /\ attempt' = 0
  /\ delay' = 0
  /\ runs' = <<>>
  /\ sleeps' = <<>>
  /\ upPc' = "check"
  /\ upResult' = FALSE
  /\ UNCHANGED <<method, dest, retries, initial_delay, backoff_factor>>

\* upload_dir has returned: its frame is gone
UploadReturned ==
  /\ upPc' = "idle"
  /\ upResult' = FALSE
  /\ attempt' = 0
  /\ delay' = 0
  /\ runs' = <<>>
  /\ sleeps' = <<>>
  /\ staging_isdir' = TRUE
  /\ UNCHANGED <<method, dest, dry_run, retries, initial_delay, backoff_factor>>

\* the staging directory exists once something is in it, or makedirs ran
StagingDirStates ==
  IF staging # {} \/ "select" \in Range(trace) \/ "skip_space" \in Range(trace)
     \/ "skip_size" \in Range(trace)
  THEN {TRUE} ELSE BOOLEAN

\* line 296: upload_dir is called
CamUploadCall ==
  /\ pc = "upload"
  /\ \E d \in StagingDirStates : CallUpload(d)
  /\ Goto("uploading", <<"upload">>)
  /\ UNCHANGED <<cfgVars, svcVars, libVars, battery_info, slept, pct, STOP, mountVars, flowVars, selVars>>

\* line 296: upload_dir returns
CamUploadReturn ==
  /\ pc = "uploading"
  /\ upPc = "done"
  /\ ok' = upResult
  /\ Goto("uploaded", <<>>)
  /\ UploadReturned
  /\ UNCHANGED <<cfgVars, svcVars, libVars, battery_info, slept, pct, STOP, mountVars, mount_path, mounted_via_context,
                 staging, raised, selVars>>

\* lines 297-310: on success remove the staged entries, one by one (an error
\* on the way leaves the rest); on failure leave them
RemoveStaged(s, cleanupOk) ==
  /\ s \subseteq staging
  /\ cleanupOk => s = {}
  /\ staging' = s

CamAfterUploadAlwaysRemoves ==
  /\ pc = "uploaded"
  /\ \E s \in SUBSET staging, c \in BOOLEAN : RemoveStaged(s, c)
  /\ Goto("once", <<"cleanup">>)
  /\ UNCHANGED <<cfgVars, svcVars, libVars, battery_info, slept, pct, STOP, mountVars, mount_path, mounted_via_context, ok,
                 raised, selVars, upVars>>

CamAfterUpload ==
  /\ pc = "uploaded"
  /\ IF ok
     THEN /\ \E s \in SUBSET staging, c \in BOOLEAN : RemoveStaged(s, c)
          /\ Goto("once", <<"cleanup">>)
     ELSE /\ UNCHANGED staging
          /\ Goto("once", <<>>)
  /\ UNCHANGED <<cfgVars, svcVars, libVars, battery_info, slept, pct, STOP, mountVars, mount_path, mounted_via_context, ok,
                 raised, selVars, upVars>>

\* lines 315-319: --once ends the loop; otherwise slept = 0
CamOnce ==
  /\ script = "service"
  /\ pc = "once"
  /\ pc' = IF args_once THEN "exit" ELSE "sleep"
  /\ slept' = 0
  /\ UNCHANGED <<cfgVars, svcVars, libVars, battery_info, pct, STOP, trace, mountVars, flowVars, selVars, upVars>>

\* lines 320-322: one test of `slept < interval and not STOP`: a second of
\* sleep, or the end of the sleep (slept is dead then)
CamSleepIgnoringStop ==
  /\ pc = "sleep"
  /\ IF slept < PollInterval
       THEN pc' = "sleep" /\ slept' = slept + 1
       ELSE pc' = "loop" /\ slept' = 0
  /\ UNCHANGED <<cfgVars, svcVars, libVars, battery_info, pct, STOP, trace, mountVars, flowVars, selVars, upVars>>

CamSleep ==
  /\ pc = "sleep"
  /\ IF slept < PollInterval /\ ~STOP
       THEN pc' = "sleep" /\ slept' = slept + 1
       ELSE pc' = "loop" /\ slept' = 0
  /\ UNCHANGED <<cfgVars, svcVars, libVars, battery_info, pct, STOP, trace, mountVars, flowVars, selVars, upVars>>

\* lines 30-37: SIGINT or SIGTERM
handle_sigterm ==
  /\ script = "service"
  /\ pc \notin {"exit", "crashed"}
  /\ ~STOP
  /\ STOP' = TRUE
  /\ UNCHANGED <<cfgVars, svcVars, libVars, battery_info, slept, pct, pc, trace, mountVars, flowVars, selVars, upVars>>

(***************************************************************************)
(* e2e_test_single_file.main                                               *)
(***************************************************************************)
\* run_cmd(cmd): subprocess.run without check: True/False, or it raises when
\* the command cannot be started
RunCmdResults == {"ok", "fail", "raise"}

\* lines 72-88: enable data (not in dry-run), import the helper modules
E2eStart ==
  /\ pc = "e_start"
  /\ \E r \in MaybeRunResults(args_dry_run), imported \in BOOLEAN :
       Goto(IF r = "raise" THEN "crashed" ELSE IF imported THEN "e_detect" ELSE "exit",
            Ran("start_data", args_dry_run))
  /\ UNCHANGED <<cfgVars, svcVars, libVars, battery_info, slept, pct, STOP, mountVars, flowVars, selVars, upVars>>

\* lines 90-100: wait for the device (never in dry-run); without one stop_all
\* and return 3
E2eDetect ==
  /\ pc = "e_detect"
  /\ \E dev \in (IF args_dry_run THEN {FALSE} ELSE BOOLEAN),
        r \in MaybeRunResults(args_dry_run) :
       IF dev
       THEN Goto("e_findmnt", <<>>)
       ELSE Goto(IF r = "raise" THEN "crashed" ELSE "exit",
                 Ran("stop_all", args_dry_run))
  /\ UNCHANGED <<cfgVars, svcVars, libVars, battery_info, slept, pct, STOP, mountVars, flowVars, selVars, upVars>>

\* lines 105-131: findmnt on the device and its partitions; errors are passed
E2eFindmnt ==
  /\ pc = "e_findmnt"
  /\ \E r \in {"ran", "raise"} :
       IF r = "ran" /\ mounts # {}
       THEN \E m \in mounts : Goto("e_select", <<"mount">>) /\ mount_path' = m
       ELSE Goto("e_mount", <<>>) /\ UNCHANGED mount_path
  /\ UNCHANGED <<cfgVars, svcVars, libVars, battery_info, slept, pct, STOP, mountVars, mounted_via_context, staging, ok,
                 raised, selVars, upVars>>

\* lines 133-145: mount through MountedDevice.__enter__; an exception leaves
\* through the finally
E2eMount ==
  /\ pc = "e_mount"
  /\ \E o \in MountOutcomes, p \in MountPoints \cup {""} :
       /\ CtxEnter(o, p)
       /\ IF p = ""
          THEN /\ Goto("e_finally", <<>>)
               /\ raised' = TRUE
               /\ UNCHANGED <<mount_path, mounted_via_context>>
          ELSE /\ Goto("e_select", <<"mount">>)
               /\ mount_path' = p
               /\ mounted_via_context' = TRUE
               /\ UNCHANGED raised
  /\ UNCHANGED <<cfgVars, svcVars, libVars, battery_info, slept, pct, STOP, staging, ok, selVars, upVars>>

\* lines 152-160: select with max_files = --max-files and no byte limit
E2eSelect ==
  /\ pc = "e_select"
  /\ \E c \in CameraContents, r \in {"ok", "raise"} :
       IF r = "raise"
       THEN /\ Goto("e_finally", <<"select", "select_raised">>)
            /\ raised' = TRUE
            /\ UNCHANGED selected
       ELSE /\ selected' = select_files_to_copy(c, max_files, None, strategy)
            /\ Goto(IF selected' = <<>> THEN "e_nofiles" ELSE "e_copy", <<"select">>)
            /\ UNCHANGED raised
  /\ UNCHANGED <<cfgVars, svcVars, libVars, battery_info, slept, pct, STOP, mountVars, mount_path, mounted_via_context,
                 staging, ok, selConfig, upVars>>

\* lines 160-165: nothing selected: leave the context, stop_all, return 5
E2eNoFiles ==
  /\ pc = "e_nofiles"
  /\ \E u \in UmountResults, r \in RunCmdResults :
       /\ IF mounted_via_context THEN CtxExit(u) ELSE UNCHANGED mountVars
       /\ Goto("e_finally",
               (IF mounted_via_context THEN ExitEvents ELSE <<>>) \o <<"stop_all">>)
       /\ raised' = (r = "raise")
  /\ UNCHANGED <<cfgVars, svcVars, libVars, battery_info, slept, pct, STOP, mount_path, mounted_via_context, staging, ok,
                 selVars, upVars>>

\* lines 167-181: the staging directory of this run, then the copy
E2eCopy ==
  /\ pc = "e_copy"
  /\ \E o \in CopyOutcomes, part \in SUBSET Range(selected) :
       /\ copy_to_staging(Range(selected), o, part)
       /\ Goto(IF o = "raise" THEN "e_finally" ELSE "e_stop",
               IF o = "raise" THEN <<"copy", "copy_raised">> ELSE <<"copy">>)
       /\ raised' = (o = "raise")
  /\ UNCHANGED <<cfgVars, svcVars, libVars, battery_info, slept, pct, STOP, mountVars, mount_path, mounted_via_context, ok,
                 selVars, upVars>>

\* lines 183-196: stop_all, wait for the device to go away
E2eStopAll ==
  /\ pc = "e_stop"
  /\ \E r \in RunCmdResults :
       /\ Goto(IF r = "raise" THEN "e_finally" ELSE "e_exit", <<"stop_all">>)
       /\ raised' = (r = "raise")
  /\ UNCHANGED <<cfgVars, svcVars, libVars, battery_info, slept, pct, STOP, mountVars, mount_path, mounted_via_context,
                 staging, ok, selVars, upVars>>

\* lines 198-202: leave the context before the upload
E2eExit ==
  /\ pc = "e_exit"
  /\ IF mounted_via_context
     THEN \E u \in UmountResults : CtxExit(u) /\ Goto("e_upload", ExitEvents)
     ELSE Goto("e_upload", <<>>) /\ UNCHANGED mountVars
  /\ UNCHANGED <<cfgVars, svcVars, libVars, battery_info, slept, pct, STOP, flowVars, selVars, upVars>>

\* line 207: upload_dir is called on the run's staging directory
E2eUploadCall ==
  /\ pc = "e_upload"
  /\ CallUpload(TRUE)
  /\ Goto("e_uploading", <<"upload">>)
  /\ UNCHANGED <<cfgVars, svcVars, libVars, battery_info, slept, pct, STOP, mountVars, flowVars, selVars>>

\* line 207: upload_dir returns
E2eUploadReturn ==
  /\ pc = "e_uploading"
  /\ upPc = "done"
  /\ ok' = upResult
  /\ Goto("e_uploaded", <<>>)
  /\ UploadReturned
  /\ UNCHANGED <<cfgVars, svcVars, libVars, battery_info, slept, pct, STOP, mountVars, mount_path, mounted_via_context,
                 staging, raised, selVars>>

\* lines 208-222: on success remove the staged entries and the directory
E2eAfterUpload ==
  /\ pc = "e_uploaded"
  /\ IF ok
     THEN /\ \E s \in SUBSET staging, c \in BOOLEAN : RemoveStaged(s, c)
          /\ Goto("e_finally", <<"cleanup">>)
     ELSE /\ UNCHANGED staging
          /\ Goto("e_finally", <<>>)
  /\ UNCHANGED <<cfgVars, svcVars, libVars, battery_info, slept, pct, STOP, mountVars, mount_path, mounted_via_context, ok,
                 raised, selVars, upVars>>

\* lines 224-232: the finally block leaves the context again
E2eFinally ==
  /\ pc = "e_finally"
  /\ \E u \in UmountResults :
       /\ IF mounted_via_context THEN CtxExit(u) ELSE UNCHANGED mountVars
       /\ Goto(IF raised THEN "crashed" ELSE "exit",
               IF mounted_via_context THEN ExitEvents ELSE <<>>)
  /\ UNCHANGED <<cfgVars, svcVars, libVars, battery_info, slept, pct, STOP, flowVars, selVars, upVars>>

(***************************************************************************)
(* mount_helper.py run as a script                                         *)
(***************************************************************************)
\* line 175: with MountedDevice(...) as mnt
MhEnter ==
  /\ pc = "mh_enter"
  /\ \E o \in MountOutcomes, p \in MountPoints \cup {""} :
       /\ CtxEnter(o, p)
       /\ Goto(IF p = "" THEN "crashed" ELSE "mh_copy",
               IF p = "" THEN <<>> ELSE <<"mount">>)
       /\ mount_path' = p
  /\ UNCHANGED <<cfgVars, svcVars, libVars, battery_info, slept, pct, STOP, mounted_via_context, staging, ok, raised,
                 selVars, upVars>>

\* lines 176-177: copy the whole tree
MhCopy ==
  /\ pc = "mh_copy"
  /\ \E files \in SUBSET Range(FileNames), o \in CopyOutcomes, part \in SUBSET Range(FileNames) :
       /\ copy_to_staging(files, o, part)
       /\ Goto("mh_exit", IF o = "raise" THEN <<"copy", "copy_raised">> ELSE <<"copy">>)
       /\ raised' = (o = "raise")
  /\ UNCHANGED <<cfgVars, svcVars, libVars, battery_info, slept, pct, STOP, mountVars, mount_path, mounted_via_context, ok,
                 selVars, upVars>>

\* the with statement leaves the context, with or without an exception
MhExit ==
  /\ pc = "mh_exit"
  /\ \E u \in UmountResults :
       /\ CtxExit(u)
       /\ Goto(IF raised THEN "crashed" ELSE "exit", ExitEvents)
  /\ UNCHANGED <<cfgVars, svcVars, libVars, battery_info, slept, pct, STOP, flowVars, selVars, upVars>>

(***************************************************************************)
(* The scripts' specification                                              *)
(***************************************************************************)
Scripts == {"service", "e2e", "mount_helper"}
StartPc(s) ==
  CASE s = "service" -> "loop"
    [] s = "e2e" -> "e_start"
    [] OTHER -> "mh_enter"

CamInit ==
  /\ script \in Scripts
  /\ args_dry_run \in (IF script = "mount_helper" THEN {FALSE} ELSE BOOLEAN)
  /\ args_once \in (IF script = "service" THEN BOOLEAN ELSE {FALSE})
  /\ \E thresholds \in (IF script = "service"
                         THEN ThresholdConfigs
                         ELSE {[disconnect_percent |-> None,
                                shutdown_percent |-> None]}) :
       /\ disconnect_pct = CfgGet(thresholds.disconnect_percent, DisconnectPercent)
       /\ shutdown_pct = CfgGet(thresholds.shutdown_percent, ShutdownPercent)
  /\ STOP = FALSE
  /\ pc = StartPc(script)
  /\ trace = <<>>
  /\ pct = None
  /\ battery_info = "unset"
  /\ slept = 0
  /\ mounts \in {{}, {"existing"}}
  /\ ctx = "none"
  /\ ctx_path = ""
  /\ unmountLog = <<>>
  /\ mount_path = ""
  /\ mounted_via_context = FALSE
  /\ staging = {}
  /\ ok = FALSE
  /\ raised = FALSE
  \* the configuration: camera.transfer_*, --limit-*, --max-files
  /\ candidates = <<>>
  /\ max_files \in {None, Some(1)}
  /\ max_bytes \in (IF script = "service" THEN {None, Some(1)} ELSE {None})
  /\ strategy = "newest"
  /\ selected = <<>>
  /\ selPc = "idle"
  \* the configuration: upload.*, poll.upload_retries
  /\ staging_isdir = TRUE
  /\ method = "rsync"
  /\ dest \in BOOLEAN
  /\ dry_run = FALSE
  /\ retries = 1
  /\ initial_delay = DefaultInitialDelay
  /\ backoff_factor = DefaultBackoff
  /\ attempt = 0
  /\ delay = 0
  /\ runs = <<>>
  /\ sleeps = <<>>
  /\ upPc = "idle"
  /\ upResult = FALSE
  /\ SvcIdle
  /\ LibIdle

CamNext ==
  \/ CamLoopTest \/ CamBatteryUnavailable \/ CamShutdown \/ CamDisconnect
  \/ CamHostUnreachable \/ CamStartData \/ CamImport \/ CamDetect
  \/ CamFindmnt \/ CamMount \/ CamMeasure \/ CamSelect \/ CamCopy
  \/ CamFinally \/ CamStopAll \/ CamUploadCall \/ CamUploadReturn
  \/ CamAfterUpload \/ CamOnce \/ CamSleep \/ handle_sigterm
  \/ E2eStart \/ E2eDetect \/ E2eFindmnt \/ E2eMount \/ E2eSelect
  \/ E2eNoFiles \/ E2eCopy \/ E2eStopAll \/ E2eExit \/ E2eUploadCall
  \/ E2eUploadReturn \/ E2eAfterUpload \/ E2eFinally
  \/ MhEnter \/ MhCopy \/ MhExit
  \/ Automount
  \/ UpStart \/ UpLoopStep

SpecCam == CamInit /\ [][CamNext]_vars

(***************************************************************************)
(* service.py: the asyncio service.  Every await is a point where the      *)
(* event loop may run the other task; the code between two awaits is one   *)
(* step.                                                                   *)
(***************************************************************************)
\* the *.MP4 files of CAMERA_MOUNT_POINT/Normal/Front/
SvcCameraFiles == {"v1.MP4", "v2.MP4"}
\* returncode of a command run by run_command
CommandResults == {"ok", "fail"}

\* the files of the camera can be read: the camera is powered, its device
\* node is there and it is mounted
CameraReadable ==
  port_power /\ usb_authorized /\ camera_connected /\ camera_mounted

\* a disconnect that issues no power-off command
set_usb_port_power_on_only(enabled, r) ==
  /\ port_power' = IF r = "ok" /\ enabled THEN enabled ELSE port_power
  /\ port_cmd' = IF enabled THEN "on" ELSE port_cmd

\* lines 170-178: uhubctl on CAMERA_PORT; a failed command changes nothing
set_usb_port_power(enabled, r) ==
  /\ port_power' = IF r = "ok" THEN enabled ELSE port_power
  /\ port_cmd' = IF enabled THEN "on" ELSE "off"

\* the part of the service state the two gathered tasks own
taskVars == <<copyPc, acPc, file_list, filename>>
\* the hardware and the disks
hwVars == <<ac_power, port_power, usb_authorized, camera_connected,
            camera_mounted, port_cmd, vbat>>
\* the low-battery watchdog task
wdVars == <<wdPc, wd_cmds>>
\* the locals of copy_files_to_staging about the free space
spaceVars == <<space_stats, transfer_file_size>>
diskVars == <<local_files, local_dir, spaceVars>>

\* line 373: await disconnect_camera()
SvcInitialDisconnect ==
  /\ mainPc = "start"
  /\ \E r \in CommandResults : set_usb_port_power(FALSE, r)
  /\ mainPc' = "cycle"
  /\ UNCHANGED <<vbat, ac_power, usb_authorized, camera_connected, camera_mounted,
                 taskVars, diskVars>>
  /\ UNCHANGED <<selVars, upVars, camVars, libVars, wdVars>>

\* lines 375-378, 384: the AC state is sampled and the branch is taken
SvcCycleInverted ==
  /\ mainPc = "cycle"
  /\ mainPc' = IF ac_power THEN "mount_camera" ELSE "start_recording"
  /\ UNCHANGED <<hwVars, taskVars, diskVars>>
  /\ UNCHANGED <<selVars, upVars, camVars, libVars, wdVars>>

SvcCycle ==
  /\ mainPc = "cycle"
  /\ mainPc' = IF ac_power THEN "start_recording" ELSE "mount_camera"
  /\ UNCHANGED <<hwVars, taskVars, diskVars>>
  /\ UNCHANGED <<selVars, upVars, camVars, libVars, wdVars>>

\* lines 379, 196-201: start_camera_recording
SvcStartRecording ==
  /\ mainPc = "start_recording"
  /\ usb_authorized' = FALSE
  /\ \E r \in CommandResults : set_usb_port_power(TRUE, r)
  /\ mainPc' = "wait_no_ac"
  /\ UNCHANGED <<vbat, ac_power, camera_connected, camera_mounted, taskVars,
                 diskVars>>
  /\ UNCHANGED <<selVars, upVars, camVars, libVars, wdVars>>

\* lines 381, 313-321: wait_for_no_ac_power polls until AC is gone
SvcWaitNoAc ==
  /\ mainPc = "wait_no_ac"
  /\ ~ac_power
  /\ mainPc' = "disconnect"
  /\ UNCHANGED <<hwVars, taskVars, diskVars>>
  /\ UNCHANGED <<selVars, upVars, camVars, libVars, wdVars>>

\* line 383: await disconnect_camera()
SvcDisconnect ==
  /\ mainPc = "disconnect"
  /\ \E r \in CommandResults : set_usb_port_power(FALSE, r)
  /\ mainPc' = "cycle"
  /\ UNCHANGED <<vbat, ac_power, usb_authorized, camera_connected, camera_mounted,
                 taskVars, diskVars>>
  /\ UNCHANGED <<selVars, upVars, camVars, libVars, wdVars>>

\* lines 305, 184-185: mount_camera enables the data line and the port
SvcMountCameraPower ==
  /\ mainPc = "mount_camera"
  /\ usb_authorized' = TRUE
  /\ \E r \in CommandResults : set_usb_port_power(TRUE, r)
  /\ mainPc' = "wait_connect"
  /\ UNCHANGED <<vbat, ac_power, camera_connected, camera_mounted, taskVars,
                 diskVars>>
  /\ UNCHANGED <<selVars, upVars, camVars, libVars, wdVars>>

\* lines 163-167: wait_for_camera_usb_connect finds no device node and
\* sleeps retry_interval; the loop is while True, nothing counts the polls
SvcWaitConnectSleep ==
  /\ mainPc = "wait_connect"
  /\ ~camera_connected
  /\ mainPc' = "wait_connect_sleep"
  /\ UNCHANGED <<hwVars, taskVars, diskVars>>
  /\ UNCHANGED <<selVars, upVars, camVars, libVars, wdVars>>

\* line 167: the sleep has passed, the device node is looked for again
SvcWaitConnectWake ==
  /\ mainPc = "wait_connect_sleep"
  /\ mainPc' = "wait_connect"
  /\ UNCHANGED <<hwVars, taskVars, diskVars>>
  /\ UNCHANGED <<selVars, upVars, camVars, libVars, wdVars>>

\* lines 186-192, 306-309: the device is there; mount (its result is not
\* looked at), then gather starts the two tasks
SvcMountCamera ==
  /\ mainPc = "wait_connect"
  /\ camera_connected
  /\ \E r \in CommandResults : camera_mounted' = (r = "ok")
  /\ mainPc' = "gather"
  /\ copyPc' = "start"
  /\ acPc' = "poll"
  /\ UNCHANGED <<port_cmd, vbat, ac_power, port_power, usb_authorized, camera_connected,
                 file_list, filename, diskVars>>
  /\ UNCHANGED <<selVars, upVars, camVars, libVars, wdVars>>

\* a get_missing_files that does not subtract the listed names
CopyGetAll ==
  /\ copyPc = "start"
  /\ file_list' = IF CameraReadable THEN SvcCameraFiles ELSE {}
  /\ copyPc' = "loop"
  /\ UNCHANGED <<mainPc, hwVars, acPc, filename, diskVars>>
  /\ UNCHANGED <<selVars, upVars, camVars, libVars, wdVars>>

\* lines 252-253, 223-247: get_missing_files
CopyGetMissing ==
  /\ copyPc = "start"
  /\ file_list' = IF CameraReadable THEN SvcCameraFiles \ local_files ELSE {}
  /\ copyPc' = "loop"
  /\ UNCHANGED <<mainPc, hwVars, acPc, filename, diskVars>>
  /\ UNCHANGED <<selVars, upVars, camVars, libVars, wdVars>>

\* lines 254-259: the next file of the iteration; a camera that is gone ends
\* the function; otherwise df is awaited
CopyLoopHead ==
  /\ copyPc = "loop"
  /\ IF file_list = {}
       THEN copyPc' = "done" /\ UNCHANGED <<file_list, filename>>
       ELSE \E f \in file_list :
              /\ file_list' = file_list \ {f}
              /\ IF camera_connected
                   THEN copyPc' = "df" /\ filename' = f
                   ELSE copyPc' = "done" /\ UNCHANGED filename
  /\ UNCHANGED <<mainPc, hwVars, acPc, diskVars>>
  /\ UNCHANGED <<selVars, upVars, camVars, libVars, wdVars>>

\* line 16
REMAINING_LOCAL_SPACE == 1024 * 1024 * 1024

\* df of LOCAL_FILES_DIR: it failed ({} is returned), or the KiB of its
\* Available column
AvailableKiB == {1024 * 1024, 1024 * 1024 + 1, 1024 * 1024 + 2}
DfResults == {None} \cup {Some(kib) : kib \in AvailableKiB}

\* the sizes in bytes a file of the camera may have
FileSizes == {1024, 1025, 2048}

\* a rule that leaves the size of the file out
reimaining_ignoring_size(available, size) == available * 1024

\* line 261
reimaining_after_transfer(available, size) == available * 1024 - size

\* lines 259-270: df returned; getsize, the space rule, the exists test, and
\* rsync is started
CopyAfterDf ==
  /\ copyPc = "df"
  /\ \E dfr \in DfResults, size \in FileSizes :
       /\ space_stats' = dfr
       /\ transfer_file_size' = IF CameraReadable THEN size ELSE transfer_file_size
       /\ copyPc' = IF ~CameraReadable \/ ~dfr.given THEN "raised"
                    ELSE IF reimaining_after_transfer(dfr.val, size)
                              < REMAINING_LOCAL_SPACE
                         THEN "done"
                         ELSE "rsync"
  /\ UNCHANGED <<mainPc, hwVars, acPc, file_list, filename, local_files, local_dir>>
  /\ UNCHANGED <<selVars, upVars, camVars, libVars, wdVars>>

\* lines 270-272: rsync returned; on success chown is awaited, otherwise the
\* loop goes on
CopyRsyncDone ==
  /\ copyPc = "rsync"
  /\ \E r \in (IF CameraReadable THEN CommandResults ELSE {"fail"}) :
       IF r = "ok"
         THEN /\ local_dir' = local_dir \cup {filename}
              /\ copyPc' = "perms"
         ELSE /\ copyPc' = "loop"
              /\ UNCHANGED local_dir
  /\ UNCHANGED <<mainPc, hwVars, acPc, file_list, filename, local_files, spaceVars>>
  /\ UNCHANGED <<selVars, upVars, camVars, libVars, wdVars>>

\* lines 272-276: chown returned; the name is appended to LOCAL_FILES_LIST
CopyPermsDone ==
  /\ copyPc = "perms"
  /\ local_files' = local_files \cup {filename}
  /\ copyPc' = "loop"
  /\ UNCHANGED <<mainPc, hwVars, acPc, file_list, filename, local_dir, spaceVars>>
  /\ UNCHANGED <<selVars, upVars, camVars, libVars, wdVars>>

\* a monitor that returns when it reads no AC instead of sleeping
AcMonitorPollReturning ==
  /\ acPc = "poll"
  /\ acPc' = IF ac_power THEN "poweroff" ELSE "done"
  /\ UNCHANGED <<mainPc, hwVars, copyPc, file_list, filename, diskVars>>
  /\ UNCHANGED <<selVars, upVars, camVars, libVars, wdVars>>

\* lines 294-298: task_disconnect_camera_on_ac reads the battery stats; on AC
\* it calls disconnect_camera, otherwise it sleeps a second
AcMonitorPoll ==
  /\ acPc = "poll"
  /\ acPc' = IF ac_power THEN "poweroff" ELSE "wait"
  /\ UNCHANGED <<mainPc, hwVars, copyPc, file_list, filename, diskVars>>
  /\ UNCHANGED <<selVars, upVars, camVars, libVars, wdVars>>

\* line 300: the second has passed; the stats are read again
AcMonitorWait ==
  /\ acPc = "wait"
  /\ acPc' = "poll"
  /\ UNCHANGED <<mainPc, hwVars, copyPc, file_list, filename, diskVars>>
  /\ UNCHANGED <<selVars, upVars, camVars, libVars, wdVars>>

\* lines 298, 205-206: disconnect_camera's uhubctl runs
AcMonitorPowerOff ==
  /\ acPc = "poweroff"
  /\ \E r \in CommandResults : set_usb_port_power(FALSE, r)
  /\ acPc' = "sleep"
  /\ UNCHANGED <<vbat, mainPc, ac_power, usb_authorized, camera_connected,
                 camera_mounted, copyPc, file_list, filename, diskVars>>
  /\ UNCHANGED <<selVars, upVars, camVars, libVars, wdVars>>

\* lines 207-208, 299: the 20 seconds have passed; the task returns
AcMonitorSleep ==
  /\ acPc = "sleep"
  /\ acPc' = "done"
  /\ UNCHANGED <<mainPc, hwVars, copyPc, file_list, filename, diskVars>>
  /\ UNCHANGED <<selVars, upVars, camVars, libVars, wdVars>>

\* lines 306-309, 386: gather returns when both tasks have returned, and
\* raises as soon as one of them raised (nothing catches it)
SvcGatherDone ==
  /\ mainPc = "gather"
  /\ copyPc = "raised" \/ (copyPc = "done" /\ acPc = "done")
  /\ mainPc' = IF copyPc = "raised" THEN "crashed" ELSE "cycle"
  /\ copyPc' = "idle"
  /\ acPc' = "idle"
  /\ file_list' = {}
  /\ filename' = ""
  /\ UNCHANGED <<hwVars, diskVars>>
  /\ UNCHANGED <<selVars, upVars, camVars, libVars, wdVars>>

\* lines 282-285: the watchdog reads the battery stats; on AC, or with the
\* battery above the boot voltage, it sleeps and reads again
WdPoll ==
  /\ wdPc = "poll"
  /\ wdPc' = IF ac_power \/ vbat > VbatBoot THEN "sleep" ELSE "poweroff"
  /\ UNCHANGED <<mainPc, hwVars, taskVars, diskVars, wd_cmds>>
  /\ UNCHANGED <<selVars, upVars, camVars, libVars>>

\* line 285: the sleep has passed
WdSleep ==
  /\ wdPc = "sleep"
  /\ wdPc' = "poll"
  /\ UNCHANGED <<mainPc, hwVars, taskVars, diskVars, wd_cmds>>
  /\ UNCHANGED <<selVars, upVars, camVars, libVars>>

\* lines 286-289: uhubctl off on the camera port, then break: the task ends
WdPowerOff ==
  /\ wdPc = "poweroff"
  /\ \E r \in CommandResults : set_usb_port_power(FALSE, r)
  /\ wd_cmds' = Append(wd_cmds, "uhubctl_off")
  /\ wdPc' = "done"
  /\ UNCHANGED <<mainPc, ac_power, usb_authorized, camera_connected,
                 camera_mounted, vbat, taskVars, diskVars>>
  /\ UNCHANGED <<selVars, upVars, camVars, libVars>>

\* a service.py process was started: service_main, or one function under
\* --test; the hardware goes on changing after it has ended
ServiceProcess == mainPc # "idle" \/ wdPc # "idle"

\* the battery voltage moves
VbatChanges ==
  /\ ServiceProcess
  /\ \E v \in VbatValues \ {vbat} : vbat' = v
  /\ UNCHANGED <<mainPc, ac_power, port_power, usb_authorized,
                 camera_connected, camera_mounted, port_cmd, taskVars,
                 diskVars, wdVars>>
  /\ UNCHANGED <<selVars, upVars, camVars, libVars>>

\* the camera boots on a powered port with the data line enabled
CameraAppears ==
  /\ ServiceProcess
  /\ port_power /\ usb_authorized /\ ~camera_connected
  /\ camera_connected' = TRUE
  /\ UNCHANGED <<port_cmd, vbat, mainPc, ac_power, port_power, usb_authorized, camera_mounted,
                 taskVars, diskVars>>
  /\ UNCHANGED <<selVars, upVars, camVars, libVars, wdVars>>

\* the device node goes away without power or data line; its mount is dead
CameraGone ==
  /\ ServiceProcess
  /\ camera_connected /\ ~(port_power /\ usb_authorized)
  /\ camera_connected' = FALSE
  /\ camera_mounted' = FALSE
  /\ UNCHANGED <<port_cmd, vbat, mainPc, ac_power, port_power, usb_authorized, taskVars,
                 diskVars>>
  /\ UNCHANGED <<selVars, upVars, camVars, libVars, wdVars>>

\* the car is started or stopped
AcChanges ==
  /\ ServiceProcess
  /\ ac_power' = ~ac_power
  /\ UNCHANGED <<port_cmd, vbat, mainPc, port_power, usb_authorized, camera_connected,
                 camera_mounted, taskVars, diskVars>>
  /\ UNCHANGED <<selVars, upVars, camVars, libVars, wdVars>>

\* lines 369-373, 390-394: the state service_main starts in
SvcInit ==
  /\ ac_power \in BOOLEAN
  /\ port_power \in BOOLEAN
  /\ usb_authorized \in BOOLEAN
  /\ camera_connected = (port_power /\ usb_authorized)
  /\ camera_mounted = FALSE
  /\ mainPc = "start"
  /\ copyPc = "idle"
  /\ acPc = "idle"
  /\ file_list = {}
  /\ filename = ""
  /\ local_files \in SUBSET SvcCameraFiles
  /\ local_dir = local_files
  /\ space_stats = None
  /\ transfer_file_size = 0
  /\ port_cmd = "none"
  /\ vbat \in VbatValues
  /\ wdPc = "idle"
  /\ wd_cmds = <<>>
  /\ SelIdle
  /\ UpIdle
  /\ CamIdle
  /\ LibIdle

SvcNext ==
  \/ SvcInitialDisconnect \/ SvcCycle \/ SvcStartRecording \/ SvcWaitNoAc
  \/ SvcDisconnect \/ SvcMountCameraPower \/ SvcMountCamera \/ SvcGatherDone
  \/ SvcWaitConnectSleep \/ SvcWaitConnectWake
  \/ CopyGetMissing \/ CopyLoopHead \/ CopyAfterDf \/ CopyRsyncDone
  \/ CopyPermsDone
  \/ AcMonitorPoll \/ AcMonitorWait \/ AcMonitorPowerOff \/ AcMonitorSleep
  \/ CameraAppears \/ CameraGone \/ AcChanges \/ VbatChanges

SpecSvc == SvcInit /\ [][SvcNext]_vars

\* the steps of the service's tasks: the event loop runs a task that is ready
SvcProgram ==
  \/ SvcInitialDisconnect \/ SvcCycle \/ SvcStartRecording \/ SvcWaitNoAc
  \/ SvcDisconnect \/ SvcMountCameraPower \/ SvcMountCamera \/ SvcGatherDone
  \/ SvcWaitConnectSleep \/ SvcWaitConnectWake
  \/ CopyGetMissing \/ CopyLoopHead \/ CopyAfterDf \/ CopyRsyncDone
  \/ CopyPermsDone
  \/ AcMonitorPoll \/ AcMonitorWait \/ AcMonitorPowerOff \/ AcMonitorSleep

SpecSvcLive == SpecSvc /\ WF_vars(SvcProgram)

\* lines 33-42, 279-289: task_disconnect_on_low_battery run by itself
\* (--test task_disconnect_on_low_battery: asyncio.run(func()))
WdInit ==
  /\ ac_power \in BOOLEAN
  /\ port_power \in BOOLEAN
  /\ usb_authorized \in BOOLEAN
  /\ camera_connected = (port_power /\ usb_authorized)
  /\ camera_mounted = FALSE
  /\ mainPc = "idle"
  /\ copyPc = "idle"
  /\ acPc = "idle"
  /\ file_list = {}
  /\ filename = ""
  /\ local_files = {}
  /\ local_dir = {}
  /\ space_stats = None
  /\ transfer_file_size = 0
  /\ port_cmd = "none"
  /\ vbat \in VbatValues
  /\ wdPc = "poll"
  /\ wd_cmds = <<>>
  /\ SelIdle
  /\ UpIdle
  /\ CamIdle
  /\ LibIdle

WdNext ==
  \/ WdPoll \/ WdSleep \/ WdPowerOff
  \/ CameraGone \/ AcChanges \/ VbatChanges

SpecWd == WdInit /\ [][WdNext]_vars

(***************************************************************************)
(* device_detector.py: wait_for_block_device and wait_for_camera_device.   *)
(* Time is counted in ticks; a lookup takes zero or one tick, a sleep its  *)
(* argument.                                                               *)
(***************************************************************************)
\* largest timeout tried (ticks)
MaxTimeout == 3
\* largest poll_interval tried (ticks)
MaxPollInterval == 2
\* ticks a lookup in sysfs or /dev can take
MaxLookupTicks == 1
\* line 94: the timeout and poll_interval of the inner call (0.1 and 0.1)
InnerTimeout == 1
InnerPollInterval == 1
\* the clock values looked at; a run that gets there is cut
MaxClock == 12 * (MaxTimeout + MaxPollInterval + 2)

\* lines 80, 114: time.time() - start > timeout
TimedOutNever(now, start, timeout) == FALSE

TimedOut(now, start, timeout) == now - start > timeout

\* no call of wait_for_block_device is open
WbClosed ==
  /\ wb_start' = 0
  /\ wb_timeout' = 0
  /\ wb_poll_interval' = 0
  /\ wb_polls' = 0

\* lines 68-78: one lookup; without vid/pid and hub it raises ValueError
WbFind ==
  /\ wbPc = "find"
  /\ IF selector = "none"
     THEN /\ wbPc' = "raised"
          /\ UNCHANGED <<clock, wbResult, wb_polls>>
     ELSE /\ \E d \in 0 .. MaxLookupTicks : clock' = clock + d
          /\ wb_polls' = wb_polls + 1
          /\ wbPc' = IF block_present THEN "returned" ELSE "check"
          /\ wbResult' = IF block_present THEN "dev" ELSE wbResult
  /\ UNCHANGED <<det_fn, selector, block_present, byid_present, wb_start,
                 wb_timeout, wb_poll_interval, wcVars>>
  /\ UNCHANGED detOthers

\* lines 80-82: the timeout is looked at after the lookup
WbCheck ==
  /\ wbPc = "check"
  /\ wbPc' = IF TimedOut(clock, wb_start, wb_timeout) THEN "returned"
             ELSE "sleep"
  /\ wbResult' = "None"
  /\ UNCHANGED <<det_fn, selector, clock, block_present, byid_present,
                 wb_start, wb_timeout, wb_poll_interval, wb_polls, wcVars>>
  /\ UNCHANGED detOthers

\* line 83: time.sleep(poll_interval)
WbSleep ==
  /\ wbPc = "sleep"
  /\ clock < MaxClock
  /\ clock' = clock + wb_poll_interval
  /\ wbPc' = "find"
  /\ UNCHANGED <<det_fn, selector, block_present, byid_present, wb_start,
                 wb_timeout, wb_poll_interval, wbResult, wb_polls, wcVars>>
  /\ UNCHANGED detOthers

\* lines 93-94: a round of wait_for_camera_device's loop starts with a call
\* of wait_for_block_device(timeout=0.1, poll_interval=0.1)
WcCallInner ==
  /\ wcPc = "call"
  /\ wc_polls' = wc_polls + 1
  /\ wb_start' = clock
  /\ wb_timeout' = InnerTimeout
  /\ wb_poll_interval' = InnerPollInterval
  /\ wb_polls' = 0
  /\ wbResult' = "None"
  /\ wbPc' = "find"
  /\ wcPc' = "inner"
  /\ UNCHANGED <<det_fn, selector, clock, block_present, byid_present,
                 wc_start, wc_timeout, wc_poll_interval, wcResult>>
  /\ UNCHANGED detOthers

\* lines 94-96: the inner call is over: its exception goes up, its device is
\* returned, and None leads to the by-id listing
WcInnerDone ==
  /\ wcPc = "inner"
  /\ wbPc \in {"returned", "raised"}
  /\ wcPc' = CASE wbPc = "raised" -> "raised"
               [] wbResult # "None" -> "returned"
               [] OTHER -> "byid"
  /\ wcResult' = IF wbPc = "returned" THEN wbResult ELSE wcResult
  /\ wbPc' = "idle"
  /\ wbResult' = "None"
  /\ WbClosed
  /\ UNCHANGED <<det_fn, selector, clock, block_present, byid_present,
                 wc_start, wc_timeout, wc_poll_interval, wc_polls>>
  /\ UNCHANGED detOthers

\* lines 98-112: the first by-id entry that exists is returned (seen_byid is
\* empty whenever it is looked at)
WcById ==
  /\ wcPc = "byid"
  /\ \E d \in 0 .. MaxLookupTicks : clock' = clock + d
  /\ wcPc' = IF byid_present THEN "returned" ELSE "check"
  /\ wcResult' = IF byid_present THEN "real" ELSE wcResult
  /\ UNCHANGED <<det_fn, selector, block_present, byid_present, wbVars,
                 wc_start, wc_timeout, wc_poll_interval, wc_polls>>
  /\ UNCHANGED detOthers

\* lines 114-116
WcCheck ==
  /\ wcPc = "check"
  /\ wcPc' = IF TimedOut(clock, wc_start, wc_timeout) THEN "returned"
             ELSE "sleep"
  /\ wcResult' = "None"
  /\ UNCHANGED <<det_fn, selector, clock, block_present, byid_present,
                 wbVars, wc_start, wc_timeout, wc_poll_interval, wc_polls>>
  /\ UNCHANGED detOthers

\* line 117: time.sleep(poll_interval)
WcSleep ==
  /\ wcPc = "sleep"
  /\ clock < MaxClock
  /\ clock' = clock + wc_poll_interval
  /\ wcPc' = "call"
  /\ UNCHANGED <<det_fn, selector, block_present, byid_present, wbVars,
                 wc_start, wc_timeout, wc_poll_interval, wcResult, wc_polls>>
  /\ UNCHANGED detOthers

\* the call made has not returned or raised
DetRunning ==
  IF det_fn = "block" THEN wbPc \notin {"returned", "raised"}
  ELSE det_fn = "camera" /\ wcPc \notin {"returned", "raised"}

\* the camera enumerates while the caller waits
DeviceAppears ==
  /\ DetRunning
  /\ ~block_present
  /\ block_present' = TRUE
  /\ UNCHANGED <<det_fn, selector, clock, byid_present, wbVars, wcVars>>
  /\ UNCHANGED detOthers

\* udev creates a by-id link of a USB disk while the caller waits
ByIdAppears ==
  /\ DetRunning
  /\ ~byid_present
  /\ byid_present' = TRUE
  /\ UNCHANGED <<det_fn, selector, clock, block_present, wbVars, wcVars>>
  /\ UNCHANGED detOthers

\* lines 61-66, 86-92: one of the two functions is called; start is read
DetInit ==
  /\ det_fn \in {"block", "camera"}
  /\ selector \in {"vidpid", "hub", "none"}
  /\ clock = 0
  /\ block_present \in BOOLEAN
  /\ byid_present \in BOOLEAN
  /\ wbResult = "None"
  /\ wcResult = "None"
  /\ wb_polls = 0
  /\ wc_polls = 0
  /\ IF det_fn = "block"
     THEN /\ wb_start = clock
          /\ wb_timeout \in 0 .. MaxTimeout
          /\ wb_poll_interval \in 1 .. MaxPollInterval
          /\ wbPc = "find"
          /\ wc_start = 0
          /\ wc_timeout = 0
          /\ wc_poll_interval = 0
          /\ wcPc = "idle"
     ELSE /\ wc_start = clock
          /\ wc_timeout \in 0 .. MaxTimeout
          /\ wc_poll_interval \in 1 .. MaxPollInterval
          /\ wcPc = "call"
          /\ wb_start = 0
          /\ wb_timeout = 0
          /\ wb_poll_interval = 0
          /\ wbPc = "idle"
  /\ SelIdle
  /\ UpIdle
  /\ CamIdle
  /\ SvcIdle
  /\ WifiIdle
  /\ StatIdle
  /\ CpIdle

\* the steps of the two functions
DetProgram ==
  \/ WbFind \/ WbCheck \/ WbSleep
  \/ WcCallInner \/ WcInnerDone \/ WcById \/ WcCheck \/ WcSleep

DetNext == DetProgram \/ DeviceAppears \/ ByIdAppears

\* the interpreter goes on running the function that was called
SpecDet == DetInit /\ [][DetNext]_vars /\ WF_vars(DetProgram)

(***************************************************************************)
(* service.py: ensure_wifi, the Wi-Fi link supervisor.  interfaces and     *)
(* todo hold indices into Profiles.                                        *)
(***************************************************************************)
\* most `nmcli connection up` commands followed
MaxUps == 2
\* outcomes of `nmcli -t -f NAME,DEVICE,UUID,STATE connection show`: it
\* fails, it lists the profiles, or a listed line does not split into four
NmcliShowResults == {"ok", "fail", "malformed"}

\* lines 347, 325-341: get_wifi_interface_info; a failed command gives an
\* empty dict, a line that does not unpack raises ValueError
WifiCheck ==
  /\ wifiPc = "check"
  /\ \E r \in NmcliShowResults :
       /\ wifiPc' = IF r = "malformed" THEN "raised" ELSE "loop"
       /\ interfaces' = IF r = "ok" THEN nm_state ELSE <<>>
       /\ todo' = IF r = "ok" THEN [i \in 1 .. Len(Profiles) |-> i] ELSE <<>>
  /\ UNCHANGED <<nm_state, wifi_port_power, ups>>
  /\ UNCHANGED wifiOthers

\* lines 348-353, 363: the for loop takes the next interface; an activated
\* one is passed over; after the last one comes the 10 s sleep
WifiLoop ==
  /\ wifiPc = "loop"
  /\ IF todo = <<>>
     THEN wifiPc' = "sleep" /\ UNCHANGED todo
     ELSE IF interfaces[Head(todo)] = "activated"
          THEN wifiPc' = "loop" /\ todo' = Tail(todo)
          ELSE wifiPc' = "up" /\ UNCHANGED todo
  /\ UNCHANGED <<nm_state, interfaces, wifi_port_power, ups>>
  /\ UNCHANGED wifiOthers

\* lines 354-359: nmcli connection up; exit status 0 returns True from
\* ensure_wifi
WifiUp(r) == IF r = "ok" THEN "returned" ELSE "port_off"

WifiConnectionUp ==
  /\ wifiPc = "up"
  /\ Len(ups) < MaxUps
  /\ \E r \in CommandResults :
       /\ wifiPc' = WifiUp(r)
       /\ ups' = Append(ups, r)
       /\ nm_state' = IF r = "ok"
                      THEN [nm_state EXCEPT ![Head(todo)] = "activated"]
                      ELSE nm_state
  /\ UNCHANGED <<interfaces, todo, wifi_port_power>>
  /\ UNCHANGED wifiOthers

\* line 360: set_usb_port_power(False, port=USB_WIFI_PORT); the adapter
\* loses its links with its power
WifiPortOff ==
  /\ wifiPc = "port_off"
  /\ \E r \in CommandResults :
       /\ wifi_port_power' = IF r = "ok" THEN FALSE ELSE wifi_port_power
       /\ nm_state' = IF r = "ok"
                      THEN [i \in 1 .. Len(Profiles) |-> "inactive"]
                      ELSE nm_state
  /\ wifiPc' = "port_sleep"
  /\ UNCHANGED <<interfaces, todo, ups>>
  /\ UNCHANGED wifiOthers

\* lines 361-362: sleep 2 s, then set_usb_port_power(True, port=USB_WIFI_PORT)
WifiPortOn ==
  /\ wifiPc = "port_sleep"
  /\ \E r \in CommandResults :
       wifi_port_power' = IF r = "ok" THEN TRUE ELSE wifi_port_power
  /\ todo' = Tail(todo)
  /\ wifiPc' = "loop"
  /\ UNCHANGED <<nm_state, interfaces, ups>>
  /\ UNCHANGED wifiOthers

\* line 364: the 10 s sleep has passed
WifiSleep ==
  /\ wifiPc = "sleep"
  /\ wifiPc' = "check"
  /\ UNCHANGED <<nm_state, interfaces, todo, wifi_port_power, ups>>
  /\ UNCHANGED wifiOthers

\* a link drops
LinkDrops ==
  /\ wifiPc # "idle"
  /\ \E i \in 1 .. Len(Profiles) :
       /\ nm_state[i] = "activated"
       /\ nm_state' = [nm_state EXCEPT ![i] = "inactive"]
  /\ UNCHANGED <<wifiPc, interfaces, todo, wifi_port_power, ups>>
  /\ UNCHANGED wifiOthers

\* NetworkManager connects a profile by itself
LinkAutoconnects ==
  /\ wifiPc # "idle"
  /\ wifi_port_power
  /\ \E i \in 1 .. Len(Profiles) :
       /\ nm_state[i] = "inactive"
       /\ nm_state' = [nm_state EXCEPT ![i] = "activated"]
  /\ UNCHANGED <<wifiPc, interfaces, todo, wifi_port_power, ups>>
  /\ UNCHANGED wifiOthers

\* lines 344-346, 371: the task starts (asyncio.create_task(ensure_wifi()),
\* or --test ensure_wifi)
WifiInit ==
  /\ wifiPc = "check"
  /\ nm_state \in [1 .. Len(Profiles) -> ProfileStates]
  /\ interfaces = <<>>
  /\ todo = <<>>
  /\ wifi_port_power = TRUE
  /\ ups = <<>>
  /\ SelIdle
  /\ UpIdle
  /\ CamIdle
  /\ SvcIdle
  /\ DetIdle
  /\ StatIdle
  /\ CpIdle

WifiNext ==
  \/ WifiCheck \/ WifiLoop \/ WifiConnectionUp \/ WifiPortOff \/ WifiPortOn
  \/ WifiSleep \/ LinkDrops \/ LinkAutoconnects

SpecWifi == WifiInit /\ [][WifiNext]_vars

(***************************************************************************)
(* service.py: run_command, read_stats_map and get_battery_stats.  A line  *)
(* of output is [eq, key, value]: eq says whether it holds a '='.           *)
(***************************************************************************)
\* most lines of output tried
MaxLines == 2
\* exit statuses of the shell: success, failure of the tool, tool not found
ExitCodes == {0, 1, 127}
\* the lines tried: readings above and below the threshold, a value that is
\* not a number, and a line without '='
OutputLines ==
  {[eq |-> TRUE, key |-> "VIN", value |-> Num(5208)],
   [eq |-> TRUE, key |-> "VIN", value |-> Num(3000)],
   [eq |-> TRUE, key |-> "VIN", value |-> Text],
   [eq |-> TRUE, key |-> "VIN_THRESHOLD", value |-> Num(4498)],
   [eq |-> TRUE, key |-> "VBAT", value |-> Num(3000)],
   [eq |-> FALSE, key |-> "", value |-> Text]}
Outputs == UNION {[1 .. n -> OutputLines] : n \in 0 .. MaxLines}

\* lines 46-57: run_command: a non-zero exit status gives (-1, '', stderr)
run_command(code, out) ==
  IF code # 0 THEN [code |-> -1, out |-> <<>>] ELSE [code |-> 0, out |-> out]

\* lines 119-125: the lines are unpacked into the dict one by one; a line
\* without '=' raises ValueError
RECURSIVE ParseLines(_, _)
ParseLines(lines, stats) ==
  IF lines = <<>> THEN [raised |-> FALSE, stats |-> stats]
  ELSE IF ~Head(lines).eq THEN [raised |-> TRUE, stats |-> NoStats]
       ELSE ParseLines(Tail(lines),
                       [stats EXCEPT ![Head(lines).key] = Head(lines).value])

\* lines 118-125: read_stats_map does not look at the exit status
read_stats_map(code, out) == ParseLines(run_command(code, out).out, NoStats)

\* stats_map.get(key, '0')
Get(map, key) == IF map[key] = Absent THEN 0 ELSE map[key].n

\* lines 129-142: get_battery_stats; float() of a value that is not a number
\* raises ValueError
get_battery_stats(map) ==
  IF \E k \in StatKeys : map[k] = Text
  THEN [raised |-> TRUE, value |-> NoResult]
  ELSE [raised |-> FALSE,
        value |-> [ac_power |-> Get(map, "VIN") >= Get(map, "VIN_THRESHOLD"),
                   battery_voltage |-> Get(map, "VBAT")]]

\* line 131: await read_stats_map()
StatRead ==
  /\ statPc = "read"
  /\ LET m == read_stats_map(tool_code, tool_out)
     IN IF m.raised
        THEN statPc' = "raised" /\ UNCHANGED stats_map
        ELSE statPc' = "stats" /\ stats_map' = m.stats
  /\ UNCHANGED <<tool_code, tool_out, result>>
  /\ UNCHANGED statOthers

\* lines 132-142
StatResult ==
  /\ statPc = "stats"
  /\ LET r == get_battery_stats(stats_map)
     IN IF r.raised
        THEN statPc' = "raised" /\ UNCHANGED result
        ELSE statPc' = "done" /\ result' = r.value
  /\ UNCHANGED <<tool_code, tool_out, stats_map>>
  /\ UNCHANGED statOthers

\* get_battery_stats is called; the tool gives one of the outputs
StatInit ==
  /\ tool_code \in ExitCodes
  /\ tool_out \in Outputs
  /\ statPc = "read"
  /\ stats_map = NoStats
  /\ result = NoResult
  /\ SelIdle
  /\ UpIdle
  /\ CamIdle
  /\ SvcIdle
  /\ DetIdle
  /\ WifiIdle
  /\ CpIdle

StatNext == StatRead \/ StatResult

SpecStat == StatInit /\ [][StatNext]_vars

(***************************************************************************)
(* mount_helper.copy_to_staging called with a selection, an empty one, or  *)
(* none.                                                                   *)
(***************************************************************************)
\* longest files_list tried
MaxListLen == 2
\* files_list: None, or a list of relative paths without repetition
FileLists ==
  {NoList} \cup
  {[given |-> TRUE, val |-> l] :
     l \in {q \in UNION {[1 .. n -> Range(FileNames)] : n \in 0 .. MaxListLen} :
              \A i, j \in DOMAIN q : q[i] = q[j] => i = j}}

\* lines 67, 90: `if files_list:` takes the listed paths; None and the empty
\* list both take the other branch, which copies everything under mount_path
CopySources(l, t) == IF l.given /\ l.val # <<>> THEN Range(l.val) ELSE t

\* lines 62-103: the call; a listed path that is not on the device makes the
\* copy command fail after the others were copied
CopyToStaging ==
  /\ cpPc = "call"
  /\ \E o \in CopyOutcomes,
        part \in SUBSET (CopySources(files_list, tree) \cap tree) :
       /\ copy_to_staging(CopySources(files_list, tree), o, part)
       /\ cpPc' = IF o = "ok" THEN "returned" ELSE "raised"
  /\ UNCHANGED <<files_list, tree>>
  /\ UNCHANGED <<cfgVars, STOP, pc, trace, pct, battery_info, slept, mountVars,
                 mount_path, mounted_via_context, ok, raised>>
  /\ UNCHANGED <<selVars, upVars, svcVars, detVars, wifiVars, statVars>>

\* copy_to_staging(mount_path, staging_dir, files_list=...) is called with an
\* empty staging directory
CpInit ==
  /\ files_list \in FileLists
  /\ tree \in SUBSET Range(FileNames)
  /\ cpPc = "call"
  /\ SelIdle
  /\ UpIdle
  /\ CamIdle
  /\ SvcIdle
  /\ DetIdle
  /\ WifiIdle
  /\ StatIdle

CpNext == CopyToStaging

SpecCopy == CpInit /\ [][CpNext]_vars

(***************************************************************************)
(* Properties of select_files_to_copy                                      *)
(***************************************************************************)
SizeOf(rel) == (CHOOSE c \in {candidates[i] : i \in DOMAIN candidates} : c.rel = rel).size
MtimeOf(rel) == (CHOOSE c \in {candidates[i] : i \in DOMAIN candidates} : c.rel = rel).mtime

RECURSIVE SumSizes(_)
SumSizes(sel) == IF sel = <<>> THEN 0 ELSE SizeOf(Head(sel)) + SumSizes(Tail(sel))

\* C9: the selection holds at most max_files paths when max_files is given,
\* and its sizes sum to at most max_bytes when max_bytes is given.
C9_LimitsRespected ==
  selPc = "done" =>
    /\ max_files.given => Len(selected) <= max_files.val
    /\ max_bytes.given => SumSizes(selected) <= max_bytes.val

\* both limits given and both cut the selection short of the candidates
C9_Witness ==
  /\ selPc = "done"
  /\ max_files.given /\ max_bytes.given
  /\ Len(selected) = max_files.val
  /\ Len(selected) > 0
  /\ Len(selected) < Len(candidates)
  /\ SumSizes(selected) = max_bytes.val

\* C10: the selection is ordered by the strategy key: non-increasing mtime
\* for 'newest', non-decreasing mtime for 'oldest', non-increasing size for
\* 'largest', whatever the limits.
C10_OrderedByStrategy ==
  selPc = "done" =>
    \A i, j \in DOMAIN selected :
      i < j =>
        /\ strategy = "newest" => MtimeOf(selected[i]) >= MtimeOf(selected[j])
        /\ strategy = "oldest" => MtimeOf(selected[i]) <= MtimeOf(selected[j])
        /\ strategy = "largest" => SizeOf(selected[i]) >= SizeOf(selected[j])

InSelected(rel) == \E i \in DOMAIN selected : selected[i] = rel

\* a file was skipped for the byte limit between two accepted files with
\* different keys
C10_Witness ==
  /\ selPc = "done"
  /\ max_bytes.given
  /\ strategy \in {"newest", "oldest", "largest"}
  /\ LET s == SortCandidates(candidates, strategy)
     IN \E i, j, k \in DOMAIN s :
          /\ i < j /\ j < k
          /\ InSelected(s[i].rel) /\ ~InSelected(s[j].rel) /\ InSelected(s[k].rel)
          /\ KeyBefore(s[i], s[k], strategy)

\* the files accepted among the first k sorted candidates, and their bytes
AcceptedBefore(s, k) == {i \in 1 .. k - 1 : InSelected(s[i].rel)}
RECURSIVE BytesOf(_, _)
BytesOf(s, idx) ==
  IF idx = {} THEN 0
  ELSE LET i == CHOOSE i \in idx : TRUE
       IN s[i].size + BytesOf(s, idx \ {i})

\* C11: the selection is the greedy pass over the sorted candidates: a
\* candidate is accepted exactly when fewer than max_files files were accepted
\* before it and the bytes accepted before it plus its size do not exceed
\* max_bytes; the accepted files keep the sorted order.
C11_GreedyPass ==
  selPc = "done" =>
    LET s == SortCandidates(candidates, strategy)
    IN /\ \A k \in DOMAIN s :
            InSelected(s[k].rel) <=>
              /\ max_files.given => Cardinality(AcceptedBefore(s, k)) < max_files.val
              /\ max_bytes.given =>
                   BytesOf(s, AcceptedBefore(s, k)) + s[k].size <= max_bytes.val
       /\ Len(selected) = Cardinality({k \in DOMAIN s : InSelected(s[k].rel)})
       /\ \A i, j \in DOMAIN selected :
            i < j => \E a, b \in DOMAIN s :
                       a < b /\ s[a].rel = selected[i] /\ s[b].rel = selected[j]

\* a candidate was skipped for max_bytes, a later one was accepted, and
\* max_files then ended the pass before a candidate that would have fitted
C11_Witness ==
  /\ selPc = "done"
  /\ max_files.given /\ max_bytes.given
  /\ LET s == SortCandidates(candidates, strategy)
     IN \E i, j, k \in DOMAIN s :
          /\ i < j /\ j < k
          /\ ~InSelected(s[i].rel) /\ InSelected(s[j].rel) /\ ~InSelected(s[k].rel)
          /\ s[i].size > max_bytes.val
          /\ SumSizes(selected) + s[k].size <= max_bytes.val

\* C12: without max_files (None), and without max_bytes (None), the same
\* candidates and strategy give at least as many files as with the limit.
C12_RemovingLimitNeverDecreases ==
  selPc = "done" =>
    /\ Len(select_files_to_copy(candidates, None, max_bytes, strategy))
         >= Len(selected)
    /\ Len(select_files_to_copy(candidates, max_files, None, strategy))
         >= Len(selected)

\* max_bytes made the pass skip a file and accept a later one: without
\* max_bytes there are more files and other ones, without max_files as many
C12_Witness ==
  /\ selPc = "done"
  /\ max_files.given /\ max_bytes.given
  /\ selected # <<>>
  /\ LET noBytes == select_files_to_copy(candidates, max_files, None, strategy)
     IN /\ Len(noBytes) > Len(selected)
        /\ noBytes[1] # selected[1]
  /\ Len(select_files_to_copy(candidates, None, max_bytes, strategy))
       = Len(selected)

(***************************************************************************)
(* Properties of upload_dir                                                *)
(***************************************************************************)
RECURSIVE Pow(_, _)
Pow(b, e) == IF e = 0 THEN 1 ELSE b * Pow(b, e - 1)

AllNonzero == \A i \in DOMAIN runs : runs[i] = "nonzero"
Validated == staging_isdir /\ method = "rsync" /\ dest

\* C6: with dry_run false, retries = R >= 0 and a command that exits non-zero
\* on every attempt, the command is run R+1 times before False is returned,
\* the k-th sleep is initial_delay * backoff_factor^(k-1) for k = 1..R, and no
\* sleep follows the last attempt.
C6_RetryCountAndDelays ==
  (upPc = "done" /\ ~dry_run /\ retries >= 0 /\ Validated /\ AllNonzero) =>
    /\ upResult = FALSE
    /\ Len(runs) = retries + 1
    /\ Len(sleeps) = retries
    /\ \A k \in 1 .. retries :
         sleeps[k] = initial_delay * Pow(backoff_factor, k - 1)

\* retries = 3: four runs and the delays d, d*b, d*b^2 with d, b > 1
C6_Witness ==
  /\ upPc = "done" /\ ~dry_run /\ Validated /\ AllNonzero
  /\ retries = 3
  /\ Len(runs) = 4
  /\ initial_delay = 2 /\ backoff_factor = 2
  /\ sleeps = <<2, 4, 8>>

\* C7 as stated: False is returned only after retries+1 attempts.
C7_FalseOnlyAfterAllAttempts ==
  (upPc = "done" /\ upResult = FALSE) => Len(runs) = retries + 1

\* C7 amended: False comes with fewer than retries+1 attempts only with no
\* attempt at all when the staging directory, the method or the destination
\* is rejected, or right after an attempt that raised something other than a
\* non-zero exit; otherwise only after retries+1 attempts that all exited
\* non-zero.
C7_FalseCases ==
  (upPc = "done" /\ upResult = FALSE) =>
    \/ ~Validated /\ runs = <<>>
    \/ /\ Validated
       /\ runs # <<>>
       /\ Len(runs) <= retries + 1
       /\ runs[Len(runs)] = "error"
       /\ \A i \in 1 .. Len(runs) - 1 : runs[i] = "nonzero"
    \/ Validated /\ AllNonzero /\ Len(runs) = retries + 1

\* False after an unexpected error on the second of four possible attempts
C7_Witness ==
  /\ upPc = "done" /\ upResult = FALSE
  /\ retries = 3
  /\ runs = <<"nonzero", "error">>

\* C8 as stated: dry_run gives True and no transfer command, whatever the
\* staging directory, the configuration and retries.
C8_DryRunAlwaysTrue ==
  (upPc = "done" /\ dry_run) => (upResult = TRUE /\ runs = <<>>)

\* C8 amended: with dry_run set no transfer command is executed; the result
\* is True when the staging directory exists, the method is rsync, a
\* destination is configured and retries >= 0, and False otherwise.
C8_DryRunNoTransfer ==
  (upPc = "done" /\ dry_run) =>
    /\ runs = <<>>
    /\ sleeps = <<>>
    /\ upResult = (Validated /\ retries >= 0)

C8_Witness ==
  /\ upPc = "done" /\ dry_run
  /\ upResult = TRUE
  /\ retries = 3
  /\ attempt = 1


(***************************************************************************)
(* Properties of the scripts (SpecCam)                                     *)
(***************************************************************************)
InTrace(e) == e \in Range(trace)

\* C2: in the camera_service loop staged files are removed only in an
\* iteration in which upload_dir returned True; when it returned False the
\* staging directory is left as it is (and is offered again later).
C2_RemovedOnlyAfterSuccess ==
  [][script = "service" =>
       /\ ~(staging \subseteq staging') => (pc = "uploaded" /\ ok)
       /\ (pc = "uploaded" /\ ~ok) => staging' = staging]_vars

\* upload_dir returned False on files an earlier cycle staged and kept
C2_Witness ==
  /\ script = "service"
  /\ pc = "uploaded" /\ ~ok
  /\ staging # {}
  /\ ~InTrace("copy")

\* the pipeline steps of one upload flow, in their order
StepRank(e) ==
  CASE e = "mount" -> 1
    [] e = "select" -> 2
    [] e = "copy" -> 3
    [] e = "unmount" -> 4
    [] e = "upload" -> 5
    [] OTHER -> 0

\* C3: within one upload-flow iteration of camera_service the steps happen
\* in the order mount (or reuse), select, copy, unmount, upload: none is
\* reordered or repeated, selection needs the mount, the copy needs the
\* selection, and the upload starts only after our own mount was unmounted.
C3_StepsOrdered ==
  script = "service" =>
    /\ \A i, j \in DOMAIN trace :
         (i < j /\ StepRank(trace[i]) > 0 /\ StepRank(trace[j]) > 0)
           => StepRank(trace[i]) < StepRank(trace[j])
    /\ InTrace("select") => InTrace("mount")
    /\ InTrace("copy") => InTrace("select")
    /\ (InTrace("upload") /\ mounted_via_context) => InTrace("unmount")

\* the copy raised, and unmount and upload still followed in order
C3_Witness ==
  /\ script = "service"
  /\ InTrace("copy_raised")
  /\ InTrace("unmount")
  /\ InTrace("upload")
  /\ mounted_via_context

\* C4: a mount path found by the fallback lookup (the device was mounted
\* elsewhere) is handed out as not owned: leaving the MountedDevice scope
\* makes no unmount call on it.
C4_ExistingMountNotUnmounted ==
  ~(ctx_path = "existing" /\ "existing" \in Range(unmountLog))

InScopePcs ==
  {"measure", "select", "copy", "finally",
   "e_select", "e_nofiles", "e_copy", "e_stop", "e_exit", "e_finally",
   "mh_copy", "mh_exit"}

\* C5: a MountedDevice that was entered is left with exactly one unmount call
\* on its mount path, on every exit path: the scope is never left with the
\* context open, and a second exit does not unmount again.
C5_UnmountExactlyOnce ==
  /\ Len(unmountLog) <= 1
  /\ ctx = "closed" => unmountLog = <<ctx_path>>
  /\ ctx \in {"none", "failed", "open"} => unmountLog = <<>>
  /\ ctx = "open" => pc \in InScopePcs

\* the e2e early exit: nothing selected, the context left at line 163 and
\* again in the finally block
C5_Witness ==
  /\ script = "e2e"
  /\ pc = "exit"
  /\ mounted_via_context
  /\ InTrace("select") /\ selected = <<>>
  /\ ctx = "closed"
  /\ unmountLog = <<ctx_path>>


\* C13: when the projected staging usage exceeds 90% of the staging
\* filesystem (the copy was skipped for space), the iteration invokes neither
\* copy_to_staging nor upload_dir and no exception escapes it.
C13_OverLimitSkipsCopyAndUpload ==
  (script = "service" /\ InTrace("skip_space")) =>
    /\ ~InTrace("copy")
    /\ ~InTrace("upload")
    /\ pc # "crashed"

\* C17: a battery_percent reading at or below shutdown_percent takes the
\* shutdown path: the loop ends, outside dry-run the shutdown command was
\* issued, and no data/upload flow was started.
C17_AtOrBelowShutdownThreshold ==
  (script = "service" /\ pc # "loop" /\ pct.given /\ pct.val <= shutdown_pct) =>
    /\ pc \in {"exit", "crashed"}
    /\ ~args_dry_run => InTrace("shutdown")
    /\ ~InTrace("start_data")

\* C18: with --once the loop head is reached once only: no poll iteration
\* ends by going back to the while test.
C18_OnceRunsOneIteration ==
  [][(script = "service" /\ args_once) => ~(pc # "loop" /\ pc' = "loop")]_vars

\* C19: once STOP is set it stays set, no poll iteration is started, the
\* inter-poll sleep sleeps no further second, and the while test ends the
\* loop.
C19_StopStartsNoIteration ==
  [][(script = "service" /\ STOP) =>
       /\ STOP'
       /\ pc' = "battery" => pc = "battery"
       /\ pc = "sleep" => (slept' <= slept /\ pc' \in {"sleep", "loop"})
       /\ (pc = "sleep" /\ pc' = "sleep") => UNCHANGED vars
       /\ pc = "loop" => pc' \in {"loop", "exit"}]_vars

\* the signal came during an iteration that ran to its upload; it is now in
\* the inter-poll sleep
C19_Witness ==
  /\ script = "service"
  /\ STOP
  /\ pc = "sleep"
  /\ InTrace("upload")

\* what a poll iteration can execute: the control scripts, shutdown, mkdir,
\* the mount, the copy and the upload
Executions ==
  {"start_data", "start_rec", "stop_all", "shutdown", "mkdir", "mount",
   "copy", "copy_raised", "unmount", "upload"}

\* C20: in --dry-run mode no iteration executes a control script, the
\* shutdown command, a mount, a copy or an upload transfer: nothing is
\* mounted or unmounted, nothing is staged and upload_dir is never called.
C20_DryRunExecutesNothing ==
  (script = "service" /\ args_dry_run) =>
    /\ Range(trace) \cap Executions = {}
    /\ ctx = "none" /\ unmountLog = <<>>
    /\ staging = {}
    /\ upPc = "idle" /\ runs = <<>>

\* a dry run with enough battery and a reachable host: start-for-data was
\* only logged, the device wait comes next
C20_Witness ==
  /\ script = "service"
  /\ args_dry_run
  /\ pc = "detect"
  /\ pct.given /\ pct.val >= disconnect_pct

(***************************************************************************)
(* Properties of service.py (SpecSvc)                                      *)
(***************************************************************************)
\* C1: while the rsync of one file is in progress the AC monitor does not
\* power the camera port off: no step switches the port off before that
\* copy has returned.
C1_NoPowerOffDuringCopy ==
  [][(copyPc = "rsync" /\ port_power) => port_power']_vars

RecordingPcs == {"start_recording", "wait_no_ac", "disconnect"}

LowBattery == ~ac_power /\ vbat <= VbatBoot

\* C15: a watchdog that read a low-battery snapshot has switched the camera
\* port off and then requested the OS shutdown before it ends.
C15_WatchdogPowerOffThenShutdown ==
  wdPc = "done" => wd_cmds = <<"uhubctl_off", "shutdown">>

\* C16: while service_main runs, a battery at or below the boot voltage with
\* no AC leads to the watchdog switching the camera port off (unless the
\* battery recovers or AC returns first), whatever the main cycle is doing.
C16_WatchdogEventuallyPowersOff ==
  (mainPc \notin {"idle", "crashed"} /\ LowBattery)
    ~> (wd_cmds # <<>> \/ ~LowBattery)

\* the program points of wait_for_camera_usb_connect
WaitConnectPcs == {"wait_connect", "wait_connect_sleep"}

\* C21: in the battery branch the wait for the camera device is bounded:
\* whenever service_main is waiting for the device node, it later leaves the
\* wait (mount_camera returns and the cycle goes on), also when the camera
\* never enumerates.
C21_DeviceWaitIsBounded ==
  (mainPc \in WaitConnectPcs) ~> (mainPc \notin WaitConnectPcs)

\* the battery information could not be read (script missing, non-zero
\* exit, output that is not JSON), or it holds no numeric battery_percent
BatteryUnreadable ==
  battery_info \in {"missing", "nonzero", "not_json", "null", "no_percent"}

C26_NoDeviceStopsAllAndContinues ==
  [][(script = "service" /\ pc = "detect" /\ ~args_dry_run
        /\ trace' = Append(trace, "stop_all")) =>
       /\ pc' = "loop"
       /\ mounts' = mounts
       /\ staging' = staging
       /\ upPc' = "idle"]_vars

\* the positions of main after line 279
AfterStopAllPcs == {"upload", "uploading", "uploaded", "once", "sleep", "loop"}

\* MountedDevice.__enter__ raised: the device path is missing, or mount
\* failed and findmnt named no target
MountFailed == script = "service" /\ ctx = "failed"

\* MountedDevice.__exit__ ran umount and the mount is still there
UnmountFailed == script = "service" /\ ctx = "closed" /\ ctx_path \in mounts

\* C27: a failure to mount the device, or to unmount it, never terminates
\* the process: the exception is contained, nothing is copied after a failed
\* mount, stop-all-ports is still run and main goes on to the end of the
\* iteration (where it ends only under --once).
C27_MountFailureContained ==
  (MountFailed \/ UnmountFailed) =>
    /\ pc \in {"finally", "stop_all", "exit"} \cup AfterStopAllPcs
    /\ (pc \in AfterStopAllPcs \cup {"exit"} => InTrace("stop_all"))
    /\ (MountFailed => ~InTrace("copy"))
    /\ (pc = "exit" => args_once)

\* C28: when copy_to_staging fails, upload_dir is not invoked in that cycle
\* and the staged files are left as they are.
C28_CopyFailureSkipsUpload ==
  (script = "service" /\ InTrace("copy_raised")) =>
    ~InTrace("upload") /\ ~InTrace("cleanup")

\* the control scripts that toggle the hardware
ControlScripts == {"start_data", "start_rec", "stop_all"}

\* C29: a hardware-toggle operation that fails (non-zero exit, or the script
\* cannot be started) never terminates the service: main never ends with an
\* exception whose last command was a control script.
C29_ToggleFailureNeverFatal ==
  (script = "service" /\ pc = "crashed" /\ trace # <<>>) =>
    trace[Len(trace)] \notin ControlScripts

\* C31: a cycle that finds the staging directory empty performs no upload
\* work: while upload_dir runs on an empty staging directory no transfer
\* command is executed.
C31_EmptyStagingNoTransfer ==
  (script = "service" /\ pc = "uploading" /\ staging = {}) => runs = <<>>

(***************************************************************************)
(* Properties of device_detector                                           *)
(***************************************************************************)
\* the call made by the caller is over
DetFinished ==
  IF det_fn = "block" THEN wbPc \in {"returned", "raised"}
  ELSE wcPc \in {"returned", "raised"}

\* lookups a call with this timeout and poll_interval makes at most: one
\* per poll_interval up to the timeout, and one after the sleep that passes it
MaxPolls(timeout, poll_interval) == timeout \div poll_interval + 2

\* C22: called with vid/pid or a hub location, wait_for_block_device and
\* wait_for_camera_device terminate: the call returns, after a number of
\* lookups bounded by the timeout and the poll interval; nothing is raised;
\* with no device found the value returned is None; and another round
\* (sleep, then look again) is started only if the elapsed time read after
\* the lookup has not exceeded timeout.
C22_WaitTerminatesWithNone ==
  /\ [](selector # "none" =>
          /\ wbPc # "raised" /\ wcPc # "raised"
          /\ (wbPc # "idle" => wb_polls <= MaxPolls(wb_timeout, wb_poll_interval))
          /\ (wcPc # "idle" => wc_polls <= MaxPolls(wc_timeout, wc_poll_interval))
          /\ (~block_present /\ ~byid_present /\ DetFinished =>
                wbResult = "None" /\ wcResult = "None"))
  /\ [][/\ wbPc = "sleep" /\ wbPc' = "find" => clock - wb_start <= wb_timeout
        /\ wcPc = "sleep" /\ wcPc' = "call" => clock - wc_start <= wc_timeout]_vars
  /\ (selector # "none" ~> DetFinished)

\* C22 witness: wait_for_camera_device, called with a hub location, went
\* through several rounds without a device and returned None.
C22_Witness ==
  /\ det_fn = "camera" /\ selector = "hub"
  /\ ~block_present /\ ~byid_present
  /\ wcPc = "returned" /\ wcResult = "None"
  /\ wc_polls >= 2

(***************************************************************************)
(* Properties of ensure_wifi                                               *)
(***************************************************************************)
\* C23: the Wi-Fi link supervisor runs indefinitely: after every outcome of
\* a bring-up attempt, success or failure, the task is still running (it has
\* neither returned nor raised) and goes on checking the profiles.
C23_SupervisorNeverTerminates ==
  ups # <<>> => wifiPc \notin {"returned", "raised"}

(***************************************************************************)
(* Properties of read_stats_map / get_battery_stats                        *)
(***************************************************************************)
\* the power query tool is absent or failed, or a line of its output is not
\* KEY=VALUE
SourceUnreadable ==
  \/ tool_code # 0
  \/ \E i \in 1 .. Len(tool_out) : ~tool_out[i].eq

\* C25: the power reader fails with an error when the tool is absent or
\* fails or its output is not a flat KEY=VALUE table: it never returns a
\* snapshot built from an unreadable source.
C25_UnreadableSourceFails ==
  SourceUnreadable => statPc # "done"

(***************************************************************************)
(* Properties of copy_to_staging                                           *)
(***************************************************************************)
\* C30: given a selection (a list of any length, zero included),
\* copy_to_staging copies the listed relative paths and nothing else; the
\* whole tree under the mount path is copied only when files_list is None.
C30_CopiesExactlyTheSelection ==
  cpPc \in {"returned", "raised"} =>
    /\ files_list.given => staging \subseteq Range(files_list.val)
    /\ (files_list.given /\ cpPc = "returned") => staging = Range(files_list.val)
    /\ (~files_list.given /\ cpPc = "returned") => staging = tree

(***************************************************************************)
(* Properties of service_main: mounts, mode switches, copy pass            *)
(***************************************************************************)
\* this step runs `uhubctl ... -a off` on the camera port
PortOffStep ==
  \/ mainPc \in {"start", "disconnect"} /\ mainPc' # mainPc
  \/ acPc = "poweroff" /\ acPc' # acPc

\* this step runs the mount command of mount_camera
MountStep == mainPc = "wait_connect" /\ mainPc' = "gather"

\* C32: at most one mount of the camera is open at any time: a mount made
\* by mount_camera has been released before the camera port is powered off
\* and before the next mount_camera.
C32_MountReleasedBeforePowerOff ==
  [][(PortOffStep \/ MountStep) => ~camera_mounted]_vars

\* C33: whatever configuration the camera_service loop runs with, the
\* disconnect threshold is strictly greater than the shutdown threshold.
C33_DisconnectAboveShutdown ==
  (script = "service" /\ pc = "battery") => disconnect_pct > shutdown_pct

\* positions of service_main between mount_camera and the end of the gather
DataPcs == {"wait_connect", "wait_connect_sleep", "gather", "crashed"}

\* this step is set_camera_usb followed by the power-on command, in
\* start_camera_recording or in mount_camera
ModeEntryStep == mainPc \in {"start_recording", "mount_camera"} /\ mainPc' # mainPc

\* C34: every switch between recording and data mode goes through a
\* powered-off state: the data line is written only when the last port-power
\* command was the power-off (so, the commands succeeding, while the port is
\* off), and the port is switched on only together with the data-line value
\* of the mode being entered.
C34_ModeSwitchThroughPowerOff ==
  [][/\ (ModeEntryStep \/ usb_authorized' # usb_authorized) => port_cmd = "off"
     /\ (port_cmd' = "on" /\ port_cmd # "on")
          => /\ ModeEntryStep
             /\ usb_authorized' = (mainPc = "mount_camera")
     /\ port_cmd = "on" => usb_authorized = (mainPc \in DataPcs)]_vars

\* recording was entered after a data-mode cycle that copied a file
C34_Witness ==
  /\ mainPc = "wait_no_ac"
  /\ port_cmd = "on" /\ port_power /\ ~usb_authorized
  /\ local_files = SvcCameraFiles

\* C35: copy_files_while_no_ac returns normally only after the AC monitor
\* has read ac_power true and then run disconnect_camera: service_main goes
\* from the gather to a new cycle only with the monitor returned and the
\* power-off issued, the monitor reaches its power-off only from a reading
\* with AC, and it returns only after that power-off.
C35_ReturnsOnlyAfterAcSeen ==
  [][/\ (mainPc = "gather" /\ mainPc' = "cycle")
          => (acPc = "done" /\ port_cmd = "off")
     /\ (acPc' = "poweroff" /\ acPc # "poweroff") => ac_power
     /\ (acPc' = "sleep" /\ acPc # "sleep")
          => (acPc = "poweroff" /\ port_cmd' = "off")
     /\ (acPc' = "done" /\ acPc # "done") => acPc = "sleep"]_vars

\* on battery every file is copied and listed, the copy task has returned,
\* and the gather still waits for the monitor
C35_Witness ==
  /\ mainPc = "gather"
  /\ copyPc = "done" /\ local_files = SvcCameraFiles
  /\ acPc = "wait" /\ ~ac_power

\* C36: a file name is appended to the local files list only after its
\* copy succeeded, get_missing_files selects no listed name, a copy is
\* started only for an unlisted file, and no file is copied successfully
\* a second time.
C36_CopiedAtMostOnce ==
  [][/\ local_files' # local_files
          => /\ copyPc = "perms"
             /\ filename \in local_dir
             /\ local_files' = local_files \cup {filename}
     /\ (copyPc = "start" /\ copyPc' # copyPc)
          => file_list' \cap local_files = {}
     /\ (copyPc' = "rsync" /\ copyPc # "rsync")
          => filename \notin local_files
     /\ (copyPc = "rsync" /\ copyPc' = "perms")
          => filename \notin local_dir]_vars

\* one file is listed already and the copy of the other has just succeeded
C36_Witness ==
  /\ copyPc = "perms"
  /\ local_files # {} /\ filename \notin local_files
  /\ local_dir = SvcCameraFiles

\* C37: without --once two consecutive poll iterations are separated by
\* the inter-poll wait: the while test is reached again only from the wait,
\* after interval seconds or with STOP set.
C37_IterationsSeparatedByWait ==
  [][(script = "service" /\ pc # "loop" /\ pc' = "loop")
       => (pc = "sleep" /\ (slept >= PollInterval \/ STOP))]_vars

\* C38: copy_files_to_staging never raises: a source file that disappeared
\* or unavailable free-space stats end the copying with a return, and
\* service_main is not ended by the gather.
C38_CopyNeverRaises ==
  copyPc # "raised" /\ mainPc # "crashed"

\* C39: the copy of a file is started only if the local free space minus
\* the size of the file is at least the 1 GiB reserve, and the first file
\* that fails this test ends the pass: no later file of the pass is copied.
C39_SpaceReserveBeforeCopy ==
  [][/\ (copyPc' = "rsync" /\ copyPc # "rsync")
          => /\ space_stats'.given
             /\ space_stats'.val * 1024 - transfer_file_size' >= 1024 * 1024 * 1024
     /\ (copyPc = "df" /\ copyPc' \notin {"df", "raised"}
          /\ space_stats'.val * 1024 - transfer_file_size' < 1024 * 1024 * 1024)
          => copyPc' = "done"
     /\ copyPc = "done" => copyPc' \in {"done", "idle"}]_vars

\* a copy started with exactly the reserve left after it
C39_Witness ==
  /\ copyPc = "rsync"
  /\ space_stats.given
  /\ space_stats.val * 1024 - transfer_file_size = REMAINING_LOCAL_SPACE

\* C40: the list select_files_to_copy returns holds no relative path
\* twice, whatever the subdirs argument.
C40_SelectedHasNoDuplicates ==
  selPc = "done" =>
    \A i, j \in 1 .. Len(selected) : selected[i] = selected[j] => i = j

=============================================================================
